---- MODULE Spec2Model ----
(***************************************************************************)
(* Memory subsystem, bus fabric and DMA engine of the gbajs2 emulator      *)
(* (src/js/util.js, src/js/io.js, src/js/gba.js).                         *)
(*                                                                         *)
(* Numbers are JavaScript numbers.  32-bit values that are stored to       *)
(* memory are kept as sequences of bytes, most significant byte first, so  *)
(* that no value leaves the range of the model checker's integers.         *)
(***************************************************************************)
EXTENDS Integers, Sequences, FiniteSets, TLC

(***************************************************************************)
(* Bounds of the model.                                                    *)
(***************************************************************************)
\* Depth of nested serviceDma calls the JavaScript call stack holds before
\* the engine raises RangeError (engine dependent; a few thousand frames).
MaxStack == 3

(***************************************************************************)
(* Program constants.                                                      *)
(***************************************************************************)
REGION_BIOS == 0
REGION_WORKING_RAM == 2
REGION_WORKING_IRAM == 3
REGION_IO == 4
REGION_CART0 == 8
REGION_CART1 == 10
REGION_CART2 == 12
REGION_CART_SRAM == 14
\* 0x00008000, 0x00010000, 0x00020000, 0x00002000
SIZE_CART_SRAM == 32768
SIZE_CART_FLASH512 == 65536
SIZE_CART_FLASH1M == 131072
SIZE_CART_EEPROM == 8192
SIZE_IO == 1024
\* Serializer.TAG_*
TAG_INT == 1
TAG_STRING == 2
TAG_STRUCT == 3
TAG_BLOB == 4
TAG_BOOLEAN == 5
\* GameBoyAdvanceIO.WININ, BLDY
MOSAIC == 76
WININ == 72
BLDY == 84
BASE_OFFSET == 24
\* 0x00040000
SIZE_WORKING_RAM == 262144
\* 0x00008000
SIZE_WORKING_IRAM == 32768
DMA_TIMING_NOW == 0
DMA_TIMING_VBLANK == 1
DMA_TIMING_HBLANK == 2
DMA_TIMING_CUSTOM == 3
DMA_INCREMENT_RELOAD == 3
DMA_OFFSET == <<1, -1, 0, 1>>
\* 0x0ba, 0x0c6, 0x0d2, 0x0de
DMA0CNT_HI == 186
DMA1CNT_HI == 198
DMA2CNT_HI == 210
DMA3CNT_HI == 222
\* 0x0b0: the first DMA register; a channel's six registers follow each other
DMA0SAD_LO == 176
\* 0x204
WAITCNT == 516
\* 0x01ffffff, the mask the ROMView constructor sets
ROM_MASK == 33554431
\* 0xb2 and 0x96: the header byte loadRom tests
ROM_MAGIC_AT == 178
ROM_MAGIC == 150
ROM_WS == <<4, 3, 2, 8>>
ROM_WS_SEQ == << <<2, 1>>, <<4, 1>>, <<8, 1>> >>
\* new MemoryBlock(SIZE_WORKING_RAM, 9), new MemoryBlock(SIZE_WORKING_IRAM, 7)
RAM_CACHE_BITS == 9
IRAM_CACHE_BITS == 7
\* the literal MemoryBlock.invalidatePage stores into ICACHE_PAGE_BITS
INVALIDATE_BITS == 4

Channels == 0..3

(***************************************************************************)
(* JavaScript integer operators, on the ranges the model uses them.        *)
(***************************************************************************)
Pow2(n) == 2 ^ n

\* x >> n for x >= 0, and for the small negative offsets a decrementing DMA
\* reaches (arithmetic shift rounds towards minus infinity)
Shr(x, n) == IF x >= 0 THEN x \div Pow2(n) ELSE -((-x + Pow2(n) - 1) \div Pow2(n))

\* x & (2^n - 1): the low n bits of the two's complement of x
LowBits(x, n) == x % Pow2(n)

\* x & ~(2^n - 1) for the values the model reaches
ClearLow(x, n) == x - (x % Pow2(n))

\* x >>> 24 of a 32-bit value: a negative x has all of its high bits set
RegionOf(x) == IF x >= 0 THEN x \div Pow2(BASE_OFFSET) ELSE 255

RECURSIVE BitOr(_, _)
BitOr(x, y) ==
    IF x = 0 THEN y
    ELSE IF y = 0 THEN x
    ELSE 2 * BitOr(x \div 2, y \div 2) + (IF x % 2 = 1 \/ y % 2 = 1 THEN 1 ELSE 0)

\* offset | (region << 24), as line 1283 computes it: a negative offset keeps
\* all of its high bits, so the region bits change nothing
OrRegion(offset, region) ==
    IF offset < 0 THEN offset
    ELSE LowBits(offset, BASE_OFFSET)
         + Pow2(BASE_OFFSET) * BitOr(offset \div Pow2(BASE_OFFSET), region)

(***************************************************************************)
(* Buffers (ArrayBuffer + DataView).  A buffer is kept sparsely: the bytes *)
(* that are not zero.                                                      *)
(***************************************************************************)
Byte(buf, a) == IF a \in DOMAIN buf THEN buf[a] ELSE 0

\* bytes in address order written at offset o
SetBytes(buf, o, bytes) ==
    LET range == o..(o + Len(bytes) - 1)
        at(a) == IF a \in range THEN bytes[a - o + 1] ELSE buf[a]
        keep == {a \in (DOMAIN buf) \cup range : at(a) # 0}
    IN [a \in keep |-> at(a)]

Reverse(s) == [i \in 1..Len(s) |-> s[Len(s) + 1 - i]]

\* DataView.getInt32(o) / getUint16(o): big-endian unless littleEndian is passed.
\* The value is the sequence of its bytes, most significant first.
GetBE(buf, o, n) == [i \in 1..n |-> Byte(buf, o + i - 1)]
GetLE(buf, o, n) == Reverse(GetBE(buf, o, n))
\* a setInt32 / setUint16 that is passed littleEndian = true
SetSwapped(buf, o, value) == SetBytes(buf, o, Reverse(value))
SetBE(buf, o, value) == SetBytes(buf, o, value)
SetLE(buf, o, value) == SetBytes(buf, o, Reverse(value))

\* A DataView access of n bytes at o raises RangeError outside the buffer.
InView(o, n, size) == o >= 0 /\ o + n <= size

(***************************************************************************)
(* State.                                                                  *)
(***************************************************************************)
VARIABLES
    memory,      \* mmu.memory: the kind of region each of the slots 0..15 holds
    buffers,     \* the bytes of the on-board RAM (2) and the on-chip RAM (3)
    icache,      \* MemoryBlock.icache of regions 2 and 3: page id -> page
    pageBits,    \* MemoryBlock.ICACHE_PAGE_BITS of regions 2 and 3
    waitstates,  \* the six wait-state vectors of the MMU
    dma,         \* cpu.irq.dma: the four channel records
    registers,   \* io.registers, the DMA registers 0x0b0..0x0de
    cpu,         \* cycles, execMode, gprs[PC], instructionWidth
    rom,         \* byteLength of the cartridge image that is mapped, 0 without one
    cart,        \* mmu.cart: whether there is one, and its saveType
    save,        \* mmu.save: the backup object it references, if any
    backupAt,    \* the backup objects that memory[0xd] and memory[0xe] hold
    gba,         \* seenFrame, seenSave, and whether advanceFrame is in its step loop
    storage,     \* the items of the save-game store: game code -> base64 string
    snapshot,    \* the serialized snapshot the host holds, NoBlob without one
    frozen,      \* history: the RAM and I/O contents when the snapshot was taken
    dropped,     \* history: the pages (region, id) of the icaches replaceData discarded
    unsaved,     \* history: the backup stores of this frame and since the last save
    warnings,    \* core.WARN messages of the last operation
    raised,      \* the exception the last operation ended with, or "none"
    calls,       \* the serviceDma and storeSavedata invocations of the last operation
    result,      \* what the last operation was asked and what it returned, if it returns a value
    last,        \* the last operation
    ops,         \* operations performed so far
    enables      \* control-register writes performed so far

vars == <<memory, buffers, icache, pageBits, waitstates, dma, registers, cpu, rom,
          cart, save, backupAt, gba, storage, snapshot, frozen, dropped,
          unsaved, warnings, raised, calls, result, last, ops, enables>>

\* The mutable machine as one value, so that a handler is a function on it.
Machine ==
    [memory |-> memory, buffers |-> buffers, icache |-> icache,
     pageBits |-> pageBits, waitstates |-> waitstates, dma |-> dma,
     registers |-> registers, cpu |-> cpu, rom |-> rom,
     cart |-> cart, save |-> save, backupAt |-> backupAt,
     gba |-> gba, storage |-> storage, snapshot |-> snapshot,
     frozen |-> frozen, dropped |-> dropped, unsaved |-> unsaved,
     warnings |-> <<>>, raised |-> "none", calls |-> <<>>, result |-> <<>>]

Blocks == {REGION_WORKING_RAM, REGION_WORKING_IRAM}

\* memory[region]: slots 16..255 hold badMemory (clear(), the loop at 752)
KindOf(m, region) == IF region \in DOMAIN m.memory THEN m.memory[region] ELSE "bad"

BlockSize(region) ==
    IF region = REGION_WORKING_RAM THEN SIZE_WORKING_RAM ELSE SIZE_WORKING_IRAM

Warn(m, text) == [m EXCEPT !.warnings = Append(@, text)]
Raise(m, error) == [m EXCEPT !.raised = error]

(***************************************************************************)
(* The BIOS image the host supplied: BiosLen bytes.                        *)
(***************************************************************************)
BiosLen == 16384
BiosByte(a) == (a * 7 + 19) % 256

\* a value a load returned: the exception it raised instead, or its bytes
Loaded(value) == [raised |-> "none", value |-> value]
Failed(error) == [raised |-> error, value |-> <<>>]

\* -1 as a 32-bit and as a 16-bit value
MinusOne(n) == [i \in 1..n |-> 255]

\* BIOSView.load32, BIOSView.loadU16
BiosLoad(offset, n) ==
    IF offset >= BiosLen THEN Loaded(MinusOne(n))
    ELSE IF ~InView(offset, n, BiosLen) THEN Failed("RangeError")
    ELSE Loaded([i \in 1..n |-> BiosByte(offset + n - i)])

\* MemoryView.loadU16: getUint16(offset & mask, true)
BlockLoadU16(m, region, offset) ==
    LET o == offset % BlockSize(region)
    IN IF InView(o, 2, BlockSize(region))
       THEN Loaded(GetLE(m.buffers[region], o, 2))
       ELSE Failed("RangeError")

\* mmu.loadU16(address), as BadMemory calls it; a load from an open-bus
\* address calls itself again through BadMemory.loadU16
RECURSIVE MmuLoadU16(_, _, _)
MmuLoadU16(m, address, depth) ==
    LET region == RegionOf(address)
        offset == LowBits(address, BASE_OFFSET)
        kind == KindOf(m, region)
    IN IF depth > MaxStack THEN Failed("StackOverflow")
       ELSE CASE kind = "absent" -> Failed("TypeError")
              [] kind = "bios" -> BiosLoad(offset, 2)
              [] kind = "block" -> BlockLoadU16(m, region, offset)
              [] kind = "bad" ->
                   MmuLoadU16(m, m.cpu.pc - m.cpu.instructionWidth
                                 + 2 * ((offset \div 2) % 2), depth + 1)

\* value |= value << 16
Doubled(half) ==
    IF half.raised # "none" THEN half ELSE Loaded(half.value \o half.value)

\* BadMemory.load32: in ARM state gprs[gprs.PC] is undefined, the address is
\* NaN and mmu.load32(NaN) reads memory[0] at offset 0
BadLoad32(m) ==
    IF m.cpu.execMode = "ARM"
    THEN IF KindOf(m, REGION_BIOS) = "absent" THEN Failed("TypeError")
         ELSE BiosLoad(0, 4)
    ELSE Doubled(MmuLoadU16(m, m.cpu.pc - m.cpu.instructionWidth, 1))

\* BadMemory.loadU16
BadLoadU16(m, offset) ==
    MmuLoadU16(m, m.cpu.pc - m.cpu.instructionWidth + 2 * ((offset \div 2) % 2), 1)

\* sourceBlock.load32(source) / sourceBlock.loadU16(source) of serviceDma, for
\* the sources it does not read through a DataView: the BIOS and open bus
RegionLoad(m, region, offset, width) ==
    CASE KindOf(m, region) = "bios" -> BiosLoad(offset, width)
      [] KindOf(m, region) = "bad" ->
           IF width = 4 THEN BadLoad32(m) ELSE BadLoadU16(m, offset)

\* offset & mask32, offset & mask16, offset & mask8 of a MemoryView
MaskAligned(region, offset, width) ==
    ClearLow(offset % BlockSize(region),
             IF width = 4 THEN 2 ELSE IF width = 2 THEN 1 ELSE 0)

\* destBlock.store32(dest, word) / destBlock.store16(dest, word): MemoryView
\* stores little-endian at the masked offset; BIOSView and BadMemory ignore it
RegionStore(m, region, offset, value) ==
    IF KindOf(m, region) = "block"
    THEN [m EXCEPT !.buffers[region] =
              SetLE(@, MaskAligned(region, offset, Len(value)), value)]
    ELSE m

(***************************************************************************)
(* Instruction page cache.                                                 *)
(***************************************************************************)
\* MemoryBlock.invalidatePage(address)
InvalidatedBits(bits) == INVALIDATE_BITS

\* the invalidatePage of every other kind of region does nothing
InvalidatePage(m, region, address) ==
    IF KindOf(m, region) # "block" THEN m
    ELSE LET bits == m.pageBits[region]
             id == Shr(address % BlockSize(region), bits)
             marked == IF id \in DOMAIN m.icache[region]
                       THEN [m EXCEPT !.icache[region][id].invalid = TRUE]
                       ELSE m
         IN [marked EXCEPT !.pageBits[region] = InvalidatedBits(bits)]

\* mmu.addressToPage(region, address)
AddressToPage(m, region, address) == Shr(address, m.pageBits[region])

\* mmu.accessPage(region, pageId) on a region that has an icache: the page
\* holds 1 << ICACHE_PAGE_BITS thumb slots
AccessPageOf(m, region, pageId) ==
    IF pageId \in DOMAIN m.icache[region] /\ ~m.icache[region][pageId].invalid
    THEN m
    ELSE [m EXCEPT !.icache[region] =
              [p \in (DOMAIN @) \cup {pageId} |->
                  IF p = pageId
                  THEN [invalid |-> FALSE, thumb |-> Pow2(m.pageBits[region])]
                  ELSE @[p]]]

(***************************************************************************)
(* DMA programming surface of the interrupt controller.                    *)
(***************************************************************************)
\* a channel record after reset
DmaReset ==
    [enable |-> FALSE, repeat |-> FALSE, width |-> 2, doIrq |-> FALSE,
     srcControl |-> 0, dstControl |-> 0, timing |-> DMA_TIMING_NOW,
     source |-> 0, dest |-> 0, count |-> 0,
     nextSource |-> 0, nextDest |-> 0, nextCount |-> 0, nextIRQ |-> 0]

\* dmaSetSourceAddress / dmaSetDestAddress: the address, masked to 28 bits
DmaAddress(word) == LowBits(word, 28)

\* dmaSetWordCount: 0 stands for the channel's maximum
DmaWordCount(ch, half) ==
    IF half # 0 THEN half ELSE IF ch = 3 THEN 65536 ELSE 16384

\* the fields dmaWriteControl decodes from the control halfword
Bits(half, from, n) == (half \div Pow2(from)) % Pow2(n)

DecodeControl(info, half) ==
    [info EXCEPT !.dstControl = Bits(half, 5, 2),
                 !.srcControl = Bits(half, 7, 2),
                 !.repeat = Bits(half, 9, 1) = 1,
                 !.width = IF Bits(half, 10, 1) = 1 THEN 4 ELSE 2,
                 !.timing = Bits(half, 12, 2),
                 !.doIrq = Bits(half, 14, 1) = 1,
                 !.enable = Bits(half, 15, 1) = 1]

\* the snapshot dmaWriteControl takes on the leading edge of enable
Snapshot(info) ==
    [info EXCEPT !.nextSource = info.source,
                 !.nextDest = info.dest,
                 !.nextCount = info.count]

(***************************************************************************)
(* serviceDma.                                                             *)
(***************************************************************************)
\* GameBoyAdvanceMMU.DMA_REGISTER[dma]: the index of DMAxCNT_HI in io.registers
DMA_REGISTER == <<DMA0CNT_HI \div 2, DMA1CNT_HI \div 2, DMA2CNT_HI \div 2, DMA3CNT_HI \div 2>>

\* a serviceDma without the test of enable
NeverCancelled(info) == FALSE

\* line 1164
Cancelled(info) == ~info.enable

\* a DMA_OFFSET whose entry for fixed is that of increment
StepWithoutFixed(control, width) == (IF control = 1 THEN -1 ELSE 1) * width

\* lines 1170, 1171
DmaStep(control, width) == DMA_OFFSET[control + 1] * width

\* source &= 0xfffffffc of the 32-bit loops; 16-bit transfers keep the offset
AlignToWidth(offset, width) == IF width = 4 THEN ClearLow(offset, 2) ELSE offset

\* wordsRemaining once `while (wordsRemaining--)` has ended
LoopExit(n) == n - 1

\* io.registers[DMA_REGISTER[dma]] &= 0xffe0
KeepEnableBit(reg) == reg - (reg % 32)

\* io.registers[DMA_REGISTER[dma]] &= 0x7fe0
ClearEnableBit(reg) == (reg % 32768) - (reg % 32)

\* lines 1192..1208: a region the engine reads or writes through its DataView
HasDestView(m, region) == region \in Blocks
HasSourceView(m, region) ==
    /\ region \in (Blocks \cup {REGION_CART0, REGION_CART1})
    /\ KindOf(m, region) = "block"

\* lines 1185..1190: the pages of the destination range are invalidated; each
\* call of invalidatePage reads ICACHE_PAGE_BITS again
RECURSIVE InvalidateRange(_, _, _, _)
InvalidateRange(m, region, i, endPage) ==
    IF i > endPage THEN m
    ELSE InvalidateRange(
             InvalidatePage(m, region, i * Pow2(m.pageBits[region])),
             region, i + 1, endPage)

InvalidateDest(m, region, dest, words, width) ==
    IF KindOf(m, region) = "block"
    THEN InvalidateRange(m, region, Shr(dest, m.pageBits[region]),
                         Shr(dest + words * width, m.pageBits[region]))
    ELSE m

\* destBlock.storeN(dest, word) once the source has been read: an exception
\* raised by the load ends the transfer
StoreLoaded(st, p, word) ==
    IF word.raised = "none"
    THEN [st EXCEPT !.m = RegionStore(st.m, p.destRegion, st.dest, word.value)]
    ELSE [st EXCEPT !.m = Raise(st.m, word.raised)]

\* one pass of a transfer loop: st is the machine and the loop's locals
TransferUnit(st, p) ==
    LET so == st.source % BlockSize(p.sourceRegion)
        do == st.dest % BlockSize(p.destRegion)
    IN CASE p.path = "views" ->
              IF InView(so, p.width, BlockSize(p.sourceRegion))
                 /\ InView(do, p.width, BlockSize(p.destRegion))
              THEN [st EXCEPT !.m.buffers[p.destRegion] =
                       SetBE(@, do, GetBE(st.m.buffers[p.sourceRegion], so, p.width))]
              ELSE [st EXCEPT !.m = Raise(st.m, "RangeError")]
         [] p.path = "sourceView" ->
              IF InView(so, p.width, BlockSize(p.sourceRegion))
              THEN [st EXCEPT !.m =
                       RegionStore(st.m, p.destRegion, st.dest,
                                   GetLE(st.m.buffers[p.sourceRegion], so, p.width))]
              ELSE [st EXCEPT !.m = Raise(st.m, "RangeError")]
         [] p.path = "regions" ->
              StoreLoaded(st, p, RegionLoad(st.m, p.sourceRegion, st.source, p.width))

RECURSIVE TransferLoop(_, _)

\* source += sourceOffset; dest += destOffset; and the loop's next test
Advance(done, p) ==
    IF done.m.raised # "none" THEN done
    ELSE TransferLoop([done EXCEPT !.words = @ - 1,
                                   !.source = @ + p.sourceOffset,
                                   !.dest = @ + p.destOffset], p)

\* while (wordsRemaining--) { ... }
TransferLoop(st, p) ==
    IF st.words = 0 THEN [st EXCEPT !.words = LoopExit(0)]
    ELSE Advance(TransferUnit(st, p), p)

\* lines 1192..1208: which of the three paths the transfer takes
PathOf(m, sourceRegion, destRegion) ==
    IF HasSourceView(m, sourceRegion) /\ HasDestView(m, destRegion) THEN "views"
    ELSE IF HasSourceView(m, sourceRegion) THEN "sourceView"
    ELSE "regions"

\* lines 1169..1178: the locals serviceDma computes from the channel record
Plan(m, info) ==
    [width |-> info.width,
     sourceOffset |-> DmaStep(info.srcControl, info.width),
     destOffset |-> DmaStep(info.dstControl, info.width),
     sourceRegion |-> RegionOf(info.nextSource),
     destRegion |-> RegionOf(info.nextDest),
     path |-> PathOf(m, RegionOf(info.nextSource), RegionOf(info.nextDest))]

\* lines 1210..1268
Transfer(m, p, source, dest, words) ==
    IF KindOf(m, p.sourceRegion) = "absent"
    THEN [m |-> Warn(m, "Invalid DMA"), source |-> source, dest |-> dest, words |-> words]
    ELSE TransferLoop([m |-> m, source |-> AlignToWidth(source, p.width),
                       dest |-> AlignToWidth(dest, p.width), words |-> words], p)

\* lines 1270..1281
NextIRQ(m, info) ==
    LET w == m.waitstates
        s == RegionOf(info.nextSource)
        d == RegionOf(info.nextDest)
        at(v, r) == IF r \in DOMAIN v THEN v[r] ELSE 0
    IN m.cpu.cycles + 2
       + (IF info.width = 4
          THEN at(w.waitstates32, s) + at(w.waitstates32, d)
          ELSE at(w.waitstates, s) + at(w.waitstates, d))
       + (info.count - 1)
         * (IF info.width = 4
            THEN at(w.waitstatesSeq32, s) + at(w.waitstatesSeq32, d)
            ELSE at(w.waitstatesSeq, s) + at(w.waitstatesSeq, d))

SetNextIRQ(m, info, ch) ==
    IF info.doIrq THEN [m EXCEPT !.dma[ch].nextIRQ = NextIRQ(m, info)] ELSE m

\* lines 1283..1285: t is the transfer's outcome, info the record it began with
WriteBack(t, info, ch) ==
    [SetNextIRQ(t.m, info, ch) EXCEPT
        !.dma[ch].nextSource = OrRegion(t.source, RegionOf(info.nextSource)),
        !.dma[ch].nextDest = OrRegion(t.dest, RegionOf(info.nextDest)),
        !.dma[ch].nextCount = t.words]

\* a reload that resets nextDest whatever dstControl is
ReloadDest(info) == [info EXCEPT !.nextCount = info.count, !.nextDest = info.dest]

\* lines 1294..1297
Reload(info) ==
    [info EXCEPT !.nextCount = info.count,
                 !.nextDest = IF info.dstControl = DMA_INCREMENT_RELOAD
                              THEN info.dest ELSE @]

RECURSIVE ServiceDma(_, _, _)

\* audio.scheduleFIFODma(dma, info): the channel is handed to the audio
\* collaborator, which services it when a FIFO runs low
ScheduleFIFODma(m, ch) == m

\* scheduleDma(dma, info); depth is the number of serviceDma frames on the stack
ScheduleDma(m, ch, depth) ==
    CASE m.dma[ch].timing = DMA_TIMING_NOW -> ServiceDma(m, ch, depth + 1)
      [] m.dma[ch].timing \in {DMA_TIMING_HBLANK, DMA_TIMING_VBLANK} -> m
      [] m.dma[ch].timing = DMA_TIMING_CUSTOM ->
           CASE ch = 0 -> Warn(m, "Discarding invalid DMA0 scheduling")
             [] ch \in {1, 2} -> ScheduleFIFODma(m, ch)
             [] ch = 3 ->
                  \* video.scheduleVCaptureDma is not a function
                  Raise(Warn(m, "Going to try and call unresolved function"),
                        "TypeError")

\* lines 1287..1299
Complete(m, ch, depth) ==
    IF ~m.dma[ch].repeat
    THEN [m EXCEPT !.dma[ch].enable = FALSE,
                   !.registers[DMA_REGISTER[ch + 1]] = ClearEnableBit(@)]
    ELSE ScheduleDma([m EXCEPT !.dma[ch] = Reload(@)], ch, depth)

\* what follows the transfer; an exception raised in it has left serviceDma
Finish(t, info, ch, depth) ==
    IF t.m.raised # "none" THEN t.m
    ELSE Complete(WriteBack(t, info, ch), ch, depth)

\* lines 1169..1268: reading ICACHE_PAGE_BITS of an absent destination slot
\* raises TypeError
Serve(m, info, ch, depth) ==
    IF KindOf(m, RegionOf(info.nextDest)) = "absent" THEN Raise(m, "TypeError")
    ELSE Finish(Transfer(InvalidateDest(m, RegionOf(info.nextDest),
                                        LowBits(info.nextDest, BASE_OFFSET),
                                        info.nextCount, info.width),
                         Plan(m, info),
                         LowBits(info.nextSource, BASE_OFFSET),
                         LowBits(info.nextDest, BASE_OFFSET),
                         info.nextCount),
                info, ch, depth)

\* the call is noted in calls, with whether it went past the test of enable
Called(m, ch, ran) == [m EXCEPT !.calls = Append(@, [ch |-> ch, ran |-> ran])]

\* serviceDma(dma, info); a call the stack has no room for raises
\* "RangeError: Maximum call stack size exceeded", StackOverflow here
ServiceDma(m, ch, depth) ==
    IF depth > MaxStack THEN Raise(m, "StackOverflow")
    ELSE IF Cancelled(m.dma[ch]) THEN Called(m, ch, FALSE)
    ELSE Serve(Called(m, ch, TRUE), m.dma[ch], ch, depth)

(***************************************************************************)
(* runVblankDmas / runHblankDmas: the channels in ascending order; an      *)
(* exception leaves the loop.                                              *)
(***************************************************************************)
\* the test at lines 1140 and 1152
Matches(info, timing) == info.enable /\ info.timing = timing

RECURSIVE RunDmas(_, _, _)
RunDmas(m, timing, i) ==
    IF i > 3 \/ m.raised # "none" THEN m
    ELSE RunDmas(IF Matches(m.dma[i], timing) THEN ServiceDma(m, i, 1) ELSE m,
                 timing, i + 1)

(***************************************************************************)
(* Bus and I/O stores.                                                     *)
(***************************************************************************)
\* the index into io.registers of register k (0..5: SAD_LO, SAD_HI, DAD_LO,
\* DAD_HI, CNT_LO, CNT_HI) of channel ch
Reg(ch, k) == (DMA0SAD_LO + 12 * ch + 2 * k) \div 2
DmaRegs == {Reg(ch, k) : ch \in Channels, k \in 0..5}

\* the entries of io.registers the model follows; offset MOSAIC + 2 (0x04e) is
\* no register of the I/O block
IoRegs == DmaRegs \cup {WAITCNT \div 2, WININ \div 2, BLDY \div 2, (MOSAIC + 2) \div 2}

\* the offsets of the registers the model follows: DMAxCNT_LO, DMAxCNT_HI, the
\* address registers; an offset that none of the cases of io.store16 names
CountOffsets == {2 * Reg(ch, 4) : ch \in Channels}
ControlOffsets == {2 * Reg(ch, 5) : ch \in Channels}
AddressOffsets == {2 * Reg(ch, k) : ch \in Channels, k \in 0..3}
KnownRegister(offset) ==
    offset \in {WININ, BLDY, WAITCNT, MOSAIC}
                \cup CountOffsets \cup ControlOffsets \cup AddressOffsets

\* the channel of a DMA register offset
ChannelAt(offset) == (offset - DMA0SAD_LO) \div 12

\* io.store32(DMAxSAD_LO, value), io.store32(DMAxDAD_LO, value)
IoStoreAddress(m, ch, k, field, word) ==
    [m EXCEPT !.dma[ch][field] = DmaAddress(word),
              !.registers[Reg(ch, k)] = LowBits(word, 16),
              !.registers[Reg(ch, k + 1)] = word \div 65536]

\* io.store16(DMAxCNT_LO, value)
IoStoreCount(m, ch, half) ==
    [m EXCEPT !.dma[ch].count = DmaWordCount(ch, half),
              !.registers[Reg(ch, 4)] = half]

\* value & 0xffe0, what io.store16 keeps of a control halfword
ControlRegister(half) == half - (half % 32)

\* dmaWriteControl(ch, value): the leading edge of enable takes the snapshot
\* and schedules the channel
LeadingEdge(m, ch, decoded) ==
    IF ~m.dma[ch].enable /\ decoded.enable
    THEN ScheduleDma([m EXCEPT !.dma[ch] = Snapshot(decoded)], ch, 0)
    ELSE [m EXCEPT !.dma[ch] = decoded]

DmaWriteControl(m, ch, half) ==
    LeadingEdge(m, ch, DecodeControl(m.dma[ch], half))

\* io.store16(DMAxCNT_HI, value): the register is stored first, the handler
\* returns without the store at line 773
IoStoreControl(m, ch, half) ==
    DmaWriteControl([m EXCEPT !.registers[Reg(ch, 5)] = ControlRegister(half)],
                    ch, half)

\* mmu.store32(address, value) on a RAM block: store32 at the offset masked
\* with 0x00fffffc, then invalidatePage(offset) and invalidatePage(offset + 2)
MmuStore32(m, address, value) ==
    LET region == RegionOf(address)
        offset == ClearLow(LowBits(address, BASE_OFFSET), 2)
        stored == RegionStore(m, region, offset, value)
    IN InvalidatePage(InvalidatePage(stored, region, offset), region, offset + 2)

\* mmu.store16(address, value): store16 at the offset masked with 0x00fffffe,
\* then invalidatePage(offset)
MmuStore16(m, address, value) ==
    InvalidatePage(RegionStore(m, RegionOf(address),
                               ClearLow(LowBits(address, BASE_OFFSET), 1), value),
                   RegionOf(address), ClearLow(LowBits(address, BASE_OFFSET), 1))

\* mmu.store8(address, value)
MmuStore8(m, address, value) ==
    InvalidatePage(RegionStore(m, RegionOf(address),
                               LowBits(address, BASE_OFFSET), value),
                   RegionOf(address), LowBits(address, BASE_OFFSET))

\* a bus store of the bytes of value: store8, store16 or store32 by its width;
\* a store to a slot that holds nothing raises TypeError
MmuStore(m, address, value) ==
    IF KindOf(m, RegionOf(address)) = "absent" THEN Raise(m, "TypeError")
    ELSE IF Len(value) = 4 THEN MmuStore32(m, address, value)
    ELSE IF Len(value) = 2 THEN MmuStore16(m, address, value)
    ELSE MmuStore8(m, address, value)

\* the operation notes what it was asked
Asked(m, request) == [m EXCEPT !.result = request]

(***************************************************************************)
(* Loads.  A load returns a JavaScript number: the getters of the DataView *)
(* give signed or unsigned integers, and the bitwise operators 32-bit      *)
(* signed ones.                                                            *)
(***************************************************************************)
\* the cartridge image the host supplied: its header byte, other bytes
RomByte(a) == IF a = ROM_MAGIC_AT THEN ROM_MAGIC ELSE (a * 13 + 5) % 256

\* the unsigned and the two's complement number of bytes, most significant first
RECURSIVE UnsignedOf(_)
UnsignedOf(bytes) ==
    IF bytes = <<>> THEN 0
    ELSE bytes[Len(bytes)] + 256 * UnsignedOf(SubSeq(bytes, 1, Len(bytes) - 1))

SignedOf(bytes) ==
    (IF bytes[1] >= 128 THEN bytes[1] - 256 ELSE bytes[1]) * Pow2(8 * (Len(bytes) - 1))
    + UnsignedOf(Tail(bytes))

\* x >>> n and x << n of a 32-bit signed x, 0 < n < 32; the result of << is
\* the signed number the operator yields
Ushr32(x, n) == (x \div Pow2(n)) % Pow2(32 - n)
Shl32(x, n) ==
    (IF x % Pow2(32 - n) >= Pow2(31 - n)
     THEN (x % Pow2(32 - n)) - Pow2(32 - n)
     ELSE x % Pow2(32 - n)) * Pow2(n)

\* (mem >>> rotate) | (mem << (32 - rotate)): shift counts are taken modulo
\* 32, so for rotate = 0 both operands are mem; otherwise the operands share
\* no bit and | adds them
RotateWord(mem, rotate) ==
    IF rotate = 0 THEN mem ELSE Ushr32(mem, rotate) + Shl32(mem, 32 - rotate)

\* halfWord | (halfWord << 16); -1 has every bit set already
DuplicateHalf(half) == IF half < 0 THEN half ELSE half + Shl32(half, 16)

\* the five loads: bytes read, and whether the getter is a signed one
Widths == [load8 |-> 1, loadU8 |-> 1, load16 |-> 2, loadU16 |-> 2, load32 |-> 4]
SignedLoad(op) == op \in {"load8", "load16", "load32"}

\* buffer.byteLength and the bytes of the view a region holds
ViewSize(m, region) ==
    CASE KindOf(m, region) = "block" -> BlockSize(region)
      [] KindOf(m, region) = "rom" -> m.rom
      [] KindOf(m, region) = "bios" -> BiosLen

ViewByte(m, region, a) ==
    CASE KindOf(m, region) = "block" -> Byte(m.buffers[region], a)
      [] KindOf(m, region) = "rom" -> RomByte(a)
      [] KindOf(m, region) = "bios" -> BiosByte(a)

\* view.getInt8(o), getUint8(o), getInt16(o, true), getUint16(o, true),
\* getInt32(o, true)
ViewGet(m, region, o, n, signed) ==
    IF ~InView(o, n, ViewSize(m, region)) THEN Failed("RangeError")
    ELSE IF signed THEN Loaded(SignedOf([i \in 1..n |-> ViewByte(m, region, o + n - i)]))
    ELSE Loaded(UnsignedOf([i \in 1..n |-> ViewByte(m, region, o + n - i)]))

\* this.mask: byteLength - 1, and 0x01ffffff for a ROMView
ViewMask(m, region) ==
    IF KindOf(m, region) = "rom" THEN ROM_MASK ELSE BlockSize(region) - 1

\* offset & mask8, offset & mask (the 16-bit loads), offset & mask32
MaskedOffset(m, region, offset, op) ==
    IF op = "load32"
    THEN ClearLow(offset % (ViewMask(m, region) + 1), 2)
    ELSE offset % (ViewMask(m, region) + 1)

Rotated(loaded, rotate) ==
    IF loaded.raised # "none" THEN loaded ELSE Loaded(RotateWord(loaded.value, rotate))

\* BIOSView.load8, load16, loadU8, loadU16, load32
BiosViewLoad(m, offset, op) ==
    IF offset >= BiosLen THEN Loaded(-1)
    ELSE ViewGet(m, REGION_BIOS, offset, Widths[op], SignedLoad(op))

\* MemoryView.load8, load16, loadU8, loadU16, load32 (RAM blocks, ROM views)
MemoryViewLoad(m, region, offset, op) ==
    IF op = "load32"
    THEN Rotated(ViewGet(m, region, MaskedOffset(m, region, offset, op), 4, TRUE),
                 8 * (offset % 4))
    ELSE ViewGet(m, region, MaskedOffset(m, region, offset, op), Widths[op],
                 SignedLoad(op))

\* the address BadMemory.load8 / loadU8 (offset & 3) and load16 / loadU16
\* (offset & 2) read instead
BadAddress(m, offset, op) ==
    m.cpu.pc - m.cpu.instructionWidth
    + (IF Widths[op] = 1 THEN offset % 4 ELSE 2 * ((offset \div 2) % 2))

Duplicated(half) ==
    IF half.raised # "none" THEN half ELSE Loaded(DuplicateHalf(half.value))

\* mmu.load8 / load16 / loadU8 / loadU16 / load32 (address).  A load from an
\* open-bus address comes back into the MMU through BadMemory; in ARM state
\* BadMemory.load32 reads gprs[gprs.PC], which is undefined, so the address
\* is NaN and the MMU reads memory[0] at offset 0.
RECURSIVE MmuLoad(_, _, _, _)

\* io.loadU16(offset) for the registers the model follows and for the offsets
\* that are no register: the registers "handled transparently" give the
\* halfword written, MOSAIC gives 0, a write-only register and the default
\* case give badMemory.loadU16(0)
IoLoadU16(m, offset, depth) ==
    IF offset \in {WININ, WAITCNT} \cup ControlOffsets
    THEN Loaded(m.registers[offset \div 2])
    ELSE IF offset = MOSAIC THEN Loaded(0)
    ELSE MmuLoad(m, BadAddress(m, 0, "loadU16"), "loadU16", depth + 1)

\* (this.loadU16(offset) << 16) >> 16
IoLoad16(half) ==
    IF half.raised # "none" \/ half.value < 32768 THEN half
    ELSE Loaded(half.value - 65536)

\* (value >>> (odd << 3)) & 0xff
IoLoadU8(half, odd) ==
    IF half.raised # "none" THEN half
    ELSE Loaded((half.value \div Pow2(8 * odd)) % 256)

\* io.load32(offset): the high halfword of a DMAxCNT_LO word, else
\* loadU16(offset) | (loadU16(offset | 2) << 16), the low half read first
IoLoad32(m, offset, low, high) ==
    IF offset \in CountOffsets
    THEN IF high.raised # "none" THEN high ELSE Loaded(Shl32(high.value, 16))
    ELSE IF low.raised # "none" THEN low
    ELSE IF high.raised # "none" THEN high
    ELSE IF low.value < 0 THEN low
    ELSE Loaded(low.value + Shl32(high.value, 16))

\* GameBoyAdvanceIO.load8 / load16 / load32 / loadU8 / loadU16
IoLoad(m, offset, op, depth) ==
    CASE op = "load8" -> Failed("Unimplmeneted unaligned I/O access")
      [] op = "load16" -> IoLoad16(IoLoadU16(m, offset, depth))
      [] op = "loadU16" -> IoLoadU16(m, offset, depth)
      [] op = "loadU8" ->
           IoLoadU8(IoLoadU16(m, ClearLow(offset, 1), depth), offset % 2)
      [] op = "load32" ->
           IoLoad32(m, ClearLow(offset, 2),
                    IoLoadU16(m, ClearLow(offset, 2), depth),
                    IoLoadU16(m, ClearLow(offset, 2) + 2, depth))

MmuLoad(m, address, op, depth) ==
    IF depth > MaxStack THEN Failed("StackOverflow")
    ELSE CASE KindOf(m, RegionOf(address)) = "absent" -> Failed("TypeError")
           [] KindOf(m, RegionOf(address)) = "io" ->
                IoLoad(m, LowBits(address, BASE_OFFSET), op, depth)
           [] KindOf(m, RegionOf(address)) = "bios" ->
                BiosViewLoad(m, LowBits(address, BASE_OFFSET), op)
           [] KindOf(m, RegionOf(address)) \in {"block", "rom"} ->
                MemoryViewLoad(m, RegionOf(address), LowBits(address, BASE_OFFSET), op)
           [] KindOf(m, RegionOf(address)) = "bad" ->
                IF op # "load32"
                THEN MmuLoad(m, BadAddress(m, LowBits(address, BASE_OFFSET), op), op,
                             depth + 1)
                ELSE IF m.cpu.execMode = "ARM"
                THEN MmuLoad(m, 0, "load32", depth + 1)
                ELSE Duplicated(MmuLoad(m, m.cpu.pc - m.cpu.instructionWidth,
                                        "loadU16", depth + 1))

\* the load ends: its exception, and its arguments and value as the result
Returned(m, request, got) ==
    [m EXCEPT !.raised = got.raised,
              !.result = [address |-> request[1], op |-> request[2], value |-> got.value]]

(***************************************************************************)
(* Wait states.  w is the record of the six wait-state vectors.            *)
(***************************************************************************)
\* the two regions of each cartridge window
CartRegions ==
    {REGION_CART0, REGION_CART0 + 1, REGION_CART1, REGION_CART1 + 1,
     REGION_CART2, REGION_CART2 + 1}

\* the window (1..3) a cartridge region belongs to
WindowOf(r) == ((r - REGION_CART0) \div 2) + 1

\* lines 1316..1319
SramTimings(w, sram) ==
    [w EXCEPT !.waitstates[REGION_CART_SRAM] = ROM_WS[sram + 1],
              !.waitstatesSeq[REGION_CART_SRAM] = ROM_WS[sram + 1],
              !.waitstates32[REGION_CART_SRAM] = ROM_WS[sram + 1],
              !.waitstatesSeq32[REGION_CART_SRAM] = ROM_WS[sram + 1]]

\* lines 1321..1339: ws and seq are the selects of the three windows
CartTimings(w, ws, seq) ==
    [w EXCEPT !.waitstates =
                  [r \in DOMAIN @ |->
                      IF r \in CartRegions THEN ROM_WS[ws[WindowOf(r)] + 1] ELSE @[r]],
              !.waitstatesSeq =
                  [r \in DOMAIN @ |->
                      IF r \in CartRegions
                      THEN ROM_WS_SEQ[WindowOf(r)][seq[WindowOf(r)] + 1]
                      ELSE @[r]]]

\* a 32-bit penalty without the cycle between the two halves
NonSeq32Joined(nonseq, seq) == nonseq + seq

\* the 32-bit penalties of a cartridge region, from its 16-bit ones
NonSeq32(nonseq, seq) == nonseq + 1 + seq
Seq32(seq) == 2 * seq + 1

\* lines 1341..1368: both regions of a window take the values computed from
\* the window's first region
Cart32Timings(w) ==
    [w EXCEPT !.waitstates32 =
                  [r \in DOMAIN @ |->
                      IF r \in CartRegions
                      THEN NonSeq32(w.waitstates[r - (r % 2)], w.waitstatesSeq[r - (r % 2)])
                      ELSE @[r]],
              !.waitstatesSeq32 =
                  [r \in DOMAIN @ |->
                      IF r \in CartRegions
                      THEN Seq32(w.waitstatesSeq[r - (r % 2)])
                      ELSE @[r]]]

\* prefetch vectors that only ever copy the sequential ones
PrefetchCopied(w, prefetch) ==
    [w EXCEPT !.waitstatesPrefetch =
                  [r \in DOMAIN @ |->
                      IF r \in CartRegions THEN w.waitstatesSeq[r - (r % 2)] ELSE @[r]],
              !.waitstatesPrefetch32 =
                  [r \in DOMAIN @ |->
                      IF r \in CartRegions THEN w.waitstatesSeq32[r - (r % 2)] ELSE @[r]]]

\* lines 1370..1410
PrefetchTimings(w, prefetch) ==
    [w EXCEPT !.waitstatesPrefetch =
                  [r \in DOMAIN @ |->
                      IF r \in CartRegions
                      THEN (IF prefetch # 0 THEN 0 ELSE w.waitstatesSeq[r - (r % 2)])
                      ELSE @[r]],
              !.waitstatesPrefetch32 =
                  [r \in DOMAIN @ |->
                      IF r \in CartRegions
                      THEN (IF prefetch # 0 THEN 0 ELSE w.waitstatesSeq32[r - (r % 2)])
                      ELSE @[r]]]

\* adjustTimings(word)
AdjustTimings(w, word) ==
    PrefetchTimings(
        Cart32Timings(
            CartTimings(SramTimings(w, Bits(word, 0, 2)),
                        <<Bits(word, 2, 2), Bits(word, 5, 2), Bits(word, 8, 2)>>,
                        <<Bits(word, 4, 1), Bits(word, 7, 1), Bits(word, 10, 1)>>)),
        Bits(word, 14, 1))

\* value &= 0xdfff
WaitcntValue(half) == half - Bits(half, 13, 1) * Pow2(13)

\* io.store16(WAITCNT, value)
IoStoreWaitcnt(m, half) ==
    [m EXCEPT !.waitstates = AdjustTimings(@, WaitcntValue(half)),
              !.registers[WAITCNT \div 2] = WaitcntValue(half)]

\* vector[memory >>> BASE_OFFSET]: the vectors have 256 entries, all zero from
\* entry 15 on
WaitAt(vector, address) ==
    IF RegionOf(address) \in DOMAIN vector THEN vector[RegionOf(address)] ELSE 0

\* wait, waitSeq, wait32, waitSeq32, waitPrefetch, waitPrefetch32 (address):
\* each charges 1 + its vector's entry
WaitVectors ==
    [wait |-> "waitstates", waitSeq |-> "waitstatesSeq",
     wait32 |-> "waitstates32", waitSeq32 |-> "waitstatesSeq32",
     waitPrefetch |-> "waitstatesPrefetch", waitPrefetch32 |-> "waitstatesPrefetch32"]

\* a wait that charges the vector's entry alone
WaitWithoutAccess(m, kind, address) ==
    [m EXCEPT !.cpu.cycles = @ + WaitAt(m.waitstates[WaitVectors[kind]], address)]

Wait(m, kind, address) ==
    [m EXCEPT !.cpu.cycles = @ + 1 + WaitAt(m.waitstates[WaitVectors[kind]], address)]

\* the test of waitMul for the bytes above the low n bits: `===` binds tighter
\* than `&`, so its first operand is rs & true, the lowest bit of rs
MulTest(rs, n) == LowBits(rs, 1) # 0 \/ ClearLow(rs, n) = 0

\* waitMul(rs), rs a 32-bit integer
WaitMulCycles(rs) ==
    IF MulTest(rs, 8) THEN 1
    ELSE IF MulTest(rs, 16) THEN 2
    ELSE IF MulTest(rs, 24) THEN 3
    ELSE 4

WaitMul(m, rs) == [m EXCEPT !.cpu.cycles = @ + WaitMulCycles(rs)]

\* waitMulti32(address, seq)
WaitMulti32(m, address, seq) ==
    [m EXCEPT !.cpu.cycles =
        @ + 1 + WaitAt(m.waitstates.waitstates32, address)
          + (1 + WaitAt(m.waitstates.waitstatesSeq32, address)) * (seq - 1)]

(***************************************************************************)
(* The CPU, as far as the bus sees it.                                     *)
(***************************************************************************)
\* the core is at pc (the value of gprs[PC]) in ARM or in Thumb state
CpuAt(core, pc, mode) ==
    [core EXCEPT !.pc = pc, !.execMode = mode,
                 !.instructionWidth = IF mode = "ARM" THEN 4 ELSE 2]

(***************************************************************************)
(* Initial state: the emulator after its constructor and reset(), with or  *)
(* without a BIOS image given to setBios before.  No cartridge is loaded.  *)
(***************************************************************************)
\* clear(), lines 734..754, and the four mmap calls of reset()
MemoryMap(bios) ==
    [r \in 0..15 |->
        CASE r = REGION_BIOS -> bios
          [] r \in Blocks -> "block"
          [] r = REGION_IO -> "io"
          [] r \in 5..7 -> "video"
          [] OTHER -> "bad"]

\* setWaitStates(), lines 721..726
WaitStatesReset ==
    LET vec(s) == [r \in 0..15 |-> IF r + 1 <= Len(s) THEN s[r + 1] ELSE 0]
        seq == <<0, 0, 2, 0, 0, 0, 0, 0, 2, 2, 4, 4, 8, 8, 4>>
        seq32 == <<0, 0, 5, 0, 0, 1, 0, 1, 5, 5, 9, 9, 17, 17, 8>>
    IN [waitstates |-> vec(<<0, 0, 2, 0, 0, 0, 0, 0, 4, 4, 4, 4, 4, 4, 4>>),
        waitstates32 |-> vec(<<0, 0, 5, 0, 0, 1, 0, 1, 7, 7, 9, 9, 13, 13, 8>>),
        waitstatesSeq |-> vec(seq),
        waitstatesSeq32 |-> vec(seq32),
        waitstatesPrefetch |-> vec(seq),
        waitstatesPrefetch32 |-> vec(seq32)]

\* mmu.cart = null, mmu.save = null, and no backup in a slot
NoCart == [loaded |-> FALSE, saveType |-> <<>>, code |-> <<>>]
NoSave == [class |-> "none", size |-> 0, id |-> 0, writePending |-> FALSE, data |-> <<>>]
NoBackups == [r \in {REGION_CART2 + 1, REGION_CART_SRAM} |-> 0]

(***************************************************************************)
(* The keypad.  A value of pressedKeys has bit b set while its source      *)
(* holds button b.                                                         *)
(***************************************************************************)
KEY_OFFSET == 1023

\* the bit numbers of the buttons
Buttons ==
    [A |-> 0, B |-> 1, SELECT |-> 2, START |-> 3, RIGHT |-> 4, LEFT |-> 5,
     UP |-> 6, DOWN |-> 7, R |-> 8, L |-> 9]

\* the key ids in the order of the cases of keyboardHandler's switch
CaseOrder == <<"START", "SELECT", "A", "B", "L", "R", "UP", "RIGHT", "DOWN", "LEFT">>

\* the constructor: KEYCODE_*, pressedKeys, remappingKeyId; held is history,
\* the key codes of the physical keys that are down
KeypadConstructed ==
    [codes |-> [A |-> 90, B |-> 88, SELECT |-> 220, START |-> 13, RIGHT |-> 39,
                LEFT |-> 37, UP |-> 38, DOWN |-> 40, R |-> 83, L |-> 65],
     pressedKeys |-> [keyboard |-> 0],
     remappingKeyId |-> "",
     held |-> {}]

HasBit(value, b) == (value \div Pow2(b)) % 2 = 1
WithBit(value, b) == IF HasBit(value, b) THEN value ELSE value + Pow2(b)
WithoutBit(value, b) == IF HasBit(value, b) THEN value - Pow2(b) ELSE value

\* acc & ~value on the ten button bits
AndNot(acc, value) ==
    LET RECURSIVE Clear(_, _)
        Clear(v, b) ==
            IF b > 9 THEN v
            ELSE Clear(IF HasBit(value, b) THEN WithoutBit(v, b) ELSE v, b + 1)
    IN Clear(acc, 0)

\* get currentDown(): Object.values(pressedKeys).reduce(acc & ~value, KEY_OFFSET)
CurrentDown(keypad) ==
    LET RECURSIVE Reduce(_, _)
        Reduce(acc, sources) ==
            IF sources = {} THEN acc
            ELSE LET source == CHOOSE x \in sources : TRUE
                 IN Reduce(AndNot(acc, keypad.pressedKeys[source]), sources \ {source})
    IN Reduce(KEY_OFFSET, DOMAIN keypad.pressedKeys)

\* the switch of keyboardHandler: the key id of the first case whose key
\* code is keyCode, "" for the default case
RECURSIVE CaseOf(_, _, _)
CaseOf(codes, keyCode, i) ==
    IF i > Len(CaseOrder) THEN ""
    ELSE IF codes[CaseOrder[i]] = keyCode THEN CaseOrder[i]
    ELSE CaseOf(codes, keyCode, i + 1)

\* remapKeycode(keyId, keycode)
RemapKeycode(keypad, keyId, keyCode) ==
    IF keyId \in DOMAIN keypad.codes
    THEN [keypad EXCEPT !.codes[keyId] = keyCode]
    ELSE keypad

\* keyboardHandler(e): an event that finds a remapping under way is taken for
\* it and returns; otherwise the button of the key code is toggled
KeyboardHandler(keypad, type, keyCode) ==
    IF keypad.remappingKeyId # ""
    THEN [RemapKeycode(keypad, keypad.remappingKeyId, keyCode) EXCEPT
              !.remappingKeyId = ""]
    ELSE LET keyId == CaseOf(keypad.codes, keyCode, 1)
         IN IF keyId = "" THEN keypad
            ELSE IF type = "keydown"
            THEN [keypad EXCEPT !.pressedKeys.keyboard = WithBit(@, Buttons[keyId])]
            ELSE [keypad EXCEPT !.pressedKeys.keyboard = WithoutBit(@, Buttons[keyId])]

\* initKeycodeRemap(keyId)
InitKeycodeRemap(keypad, keyId) ==
    IF keyId \in DOMAIN Buttons THEN [keypad EXCEPT !.remappingKeyId = keyId]
    ELSE keypad

\* gamepadHandler(gamepad, map): over is the set of key ids whose button of
\* the pad reads above the threshold
RECURSIVE PadValue(_)
PadValue(over) ==
    IF over = {} THEN 0
    ELSE LET keyId == CHOOSE x \in over : TRUE
         IN Pow2(Buttons[keyId]) + PadValue(over \ {keyId})

GamepadHandler(keypad, id, over) ==
    [keypad EXCEPT !.pressedKeys =
        [source \in (DOMAIN @) \cup {id} |->
            IF source = id THEN PadValue(over) ELSE @[source]]]

\* gba.js 56..63: the fields the constructor sets; no advanceFrame is running.
\* queue is the handle of the timer queueFrame made last, 0 for null; timers
\* are the handles of the host's pending timers, and handles is the number of
\* timers window.setTimeout has made
GbaConstructed ==
    [seenFrame |-> FALSE, seenSave |-> FALSE, stepping |-> FALSE,
     paused |-> FALSE, queue |-> 0, timers |-> {}, handles |-> 0,
     keypad |-> KeypadConstructed]

\* a Blob or ArrayBuffer: its size and its bytes, kept sparsely
NoBlob == [size |-> 0, bytes |-> <<>>]

\* no backup store yet: none in this frame, none since the last save or load
NothingUnsaved == [frame |-> FALSE, sinceSave |-> FALSE, sinceLoad |-> FALSE]

\* the CPU after resetCPU(0)
CpuReset == [cycles |-> 0, execMode |-> "ARM", pc |-> 4, instructionWidth |-> 4]

Init ==
    /\ \E bios \in {"bios", "absent"} : memory = MemoryMap(bios)
    /\ buffers = [r \in Blocks |-> <<>>]
    /\ icache = [r \in Blocks |-> <<>>]
    /\ pageBits = [r \in Blocks |->
                      IF r = REGION_WORKING_RAM THEN RAM_CACHE_BITS ELSE IRAM_CACHE_BITS]
    /\ waitstates = WaitStatesReset
    /\ dma = [ch \in Channels |-> DmaReset]
    /\ registers = [i \in IoRegs |-> 0]
    /\ cpu = CpuReset
    /\ rom = 0
    /\ cart = NoCart
    /\ save = NoSave
    /\ backupAt = NoBackups
    /\ gba = GbaConstructed
    /\ storage = <<>>
    /\ snapshot = NoBlob
    /\ frozen = <<>>
    /\ dropped = {}
    /\ unsaved = NothingUnsaved
    /\ warnings = <<>>
    /\ raised = "none"
    /\ calls = <<>>
    /\ result = <<>>
    /\ last = "reset"
    /\ ops = 0
    /\ enables = 0

(***************************************************************************)
(* Save data.  A base64 string is its length and its characters, kept      *)
(* sparsely: the characters that are not "A", the digit of six zero bits.  *)
(* The view of a backup is its size and the bytes that are not zero.       *)
(***************************************************************************)
Alphabet ==
    <<"A", "B", "C", "D", "E", "F", "G", "H", "I", "J", "K", "L", "M",
      "N", "O", "P", "Q", "R", "S", "T", "U", "V", "W", "X", "Y", "Z",
      "a", "b", "c", "d", "e", "f", "g", "h", "i", "j", "k", "l", "m",
      "n", "o", "p", "q", "r", "s", "t", "u", "v", "w", "x", "y", "z",
      "0", "1", "2", "3", "4", "5", "6", "7", "8", "9", "+", "/">>

\* btoa of a string of one, two or three characters
ByteOf(group, i) == IF i <= Len(group) THEN group[i] ELSE 0
Btoa(group) ==
    <<Alphabet[ByteOf(group, 1) \div 4 + 1],
      Alphabet[(ByteOf(group, 1) % 4) * 16 + ByteOf(group, 2) \div 16 + 1],
      IF Len(group) < 2 THEN "="
      ELSE Alphabet[(ByteOf(group, 2) % 16) * 4 + ByteOf(group, 3) \div 64 + 1],
      IF Len(group) < 3 THEN "=" ELSE Alphabet[(ByteOf(group, 3) % 64) + 1]>>

\* the triplet the loop of encodeBase64 splices off for the bytes from 3 * g
\* on, or what is left in wordstring behind the loop
Triplet(view, g) ==
    [i \in 1..(IF view.size - 3 * g < 3 THEN view.size - 3 * g ELSE 3) |->
        Byte(view.bytes, 3 * g + i - 1)]

\* the character at p of data.join('')
EncodedChar(view, p) == Btoa(Triplet(view, p \div 4))[(p % 4) + 1]

\* the characters that can differ from "A": those of a triplet with a byte
\* that is not zero, and those of the last one
EncodedAt(view) ==
    {4 * (a \div 3) + k : a \in DOMAIN view.bytes, k \in 0..3}
    \cup {4 * ((view.size - 1) \div 3) + k : k \in {j \in 0..3 : view.size > 0}}

\* gba.encodeBase64(view)
EncodeBase64(view) ==
    [length |-> 4 * ((view.size + 2) \div 3),
     chars |-> [p \in {q \in EncodedAt(view) : EncodedChar(view, q) # "A"} |->
                   EncodedChar(view, p)]]

\* string[p], undefined outside the string
CharAt(string, p) ==
    IF p < 0 \/ p >= string.length THEN "undefined"
    ELSE IF p \in DOMAIN string.chars THEN string.chars[p] ELSE "A"

\* atob of the group of four characters from 4 * g on: its bytes
Sextet(c) == IF c = "=" THEN 0 ELSE CHOOSE n \in 0..63 : Alphabet[n + 1] = c
Atob(string, g) ==
    <<Sextet(CharAt(string, 4 * g)) * 4 + Sextet(CharAt(string, 4 * g + 1)) \div 16,
      (Sextet(CharAt(string, 4 * g + 1)) % 16) * 16
          + Sextet(CharAt(string, 4 * g + 2)) \div 4,
      (Sextet(CharAt(string, 4 * g + 2)) % 4) * 64 + Sextet(CharAt(string, 4 * g + 3))>>

\* decodeBase64, lines 217..223: the length of the buffer, for a string of
\* whole groups
DecodedLength(string) ==
    IF CharAt(string, string.length - 2) = "=" THEN (string.length * 3) \div 4 - 2
    ELSE IF CharAt(string, string.length - 1) = "=" THEN (string.length * 3) \div 4 - 1
    ELSE (string.length * 3) \div 4

\* lines 224..231: the buffer when the loop ends; it has written three bytes
\* for every i = 3 * g with i + 2 < length
DecodedByLoop(string) ==
    [size |-> DecodedLength(string),
     bytes |-> [a \in {b \in UNION {{3 * (p \div 4), 3 * (p \div 4) + 1, 3 * (p \div 4) + 2} :
                                       p \in DOMAIN string.chars} :
                          /\ 3 * (b \div 3) + 2 < DecodedLength(string)
                          /\ Atob(string, b \div 3)[(b % 3) + 1] # 0} |->
                   Atob(string, a \div 3)[(a % 3) + 1]]]

\* line 232, `if (i < length)`: i is declared by the let of the for statement
\* at 226 and is not in scope behind the loop, and nothing around the method
\* declares an i; the reference raises ReferenceError and the buffer the loop
\* filled is dropped
BehindLoop(buffer) == Failed("ReferenceError")

\* gba.decodeBase64(string)
DecodeBase64(string) == BehindLoop(DecodedByLoop(string))

\* the view of the backup mmu.save
SaveView(m) == [size |-> m.save.size, bytes |-> m.save.data]

\* gba.storeSavedata(): saveGame.save(cart.code, encodeBase64(save.view)); the
\* call is noted, and no backup store is unsaved any more
StoreSavedata(m) ==
    [m EXCEPT !.storage = (m.cart.code :> EncodeBase64(SaveView(m))) @@ @,
              !.calls = Append(@, [storeSavedata |-> m.cart.code]),
              !.unsaved = NothingUnsaved]

\* gba.decodeSavedata(string): mmu.loadSavedata(decodeBase64(string)), which
\* is save.replaceData(buffer)
DecodeSavedata(m, decoded) ==
    IF decoded.raised # "none"
    THEN Warn(m, "Could not retrieve savedata!")
    ELSE [m EXCEPT !.save.data = decoded.value.bytes]

\* gba.retrieveSavedata(): nothing for a game without an item or with an
\* empty one; an exception is caught and logged
RetrieveSavedata(m) ==
    IF m.cart.code \notin DOMAIN m.storage THEN m
    ELSE IF m.storage[m.cart.code].length = 0 THEN m
    ELSE DecodeSavedata(m, DecodeBase64(m.storage[m.cart.code]))

\* a store that the backup takes as a write of a byte: it sets writePending
BackupStore(m, offset, value) ==
    IF m.save.class = "none" THEN m
    ELSE [m EXCEPT !.save.data = SetBytes(@, offset % m.save.size, <<value>>),
                   !.save.writePending = TRUE,
                   !.unsaved = [frame |-> TRUE, sinceSave |-> TRUE,
                                sinceLoad |-> TRUE]]

(***************************************************************************)
(* Frames.  advanceFrame runs cpu.step() until doStep, which is waitFrame, *)
(* has seen the flag the vblank callback sets, then flushes the save.      *)
(***************************************************************************)
\* the host calls advanceFrame(): it enters the loop of step()
EnterFrame(m) ==
    [m EXCEPT !.gba.stepping = TRUE, !.unsaved.frame = FALSE]

\* video.vblankCallback()
VblankCallback(m) == [m EXCEPT !.gba.seenFrame = TRUE]

\* cpu.step() of an iteration for which waitFrame() returned true: the
\* instruction may store to the backup, and the video may reach vblank
StoredByStep(m, event) ==
    IF event.store = <<>> THEN m
    ELSE BackupStore(m, event.store[1], event.store[2])

CpuStepped(m, event) ==
    IF event.vblank THEN VblankCallback(StoredByStep(m, event))
    ELSE StoredByStep(m, event)

\* mmu.flushSave()
FlushSave(m) == [m EXCEPT !.save.writePending = FALSE]

\* a flush logic that forgets it has seen a write
FlushUnseen(m) ==
    IF m.save.class = "none" THEN Raise(m, "TypeError")
    ELSE IF m.save.writePending THEN FlushSave(m)
    ELSE m

\* advanceFrame behind step(), lines 161..171; mmu.saveNeedsFlush() reads
\* save.writePending and raises TypeError without a save
FlushLogic(m) ==
    IF m.save.class = "none" THEN Raise(m, "TypeError")
    ELSE IF m.gba.seenSave
    THEN IF ~m.save.writePending
         THEN [StoreSavedata(m) EXCEPT !.gba.seenSave = FALSE]
         ELSE FlushSave(m)
    ELSE IF m.save.writePending
    THEN FlushSave([m EXCEPT !.gba.seenSave = TRUE])
    ELSE m

\* a waitFrame() that leaves the flag set
LeaveWithFlag(m) == FlushLogic([m EXCEPT !.gba.stepping = FALSE])

\* waitFrame() that finds seenFrame set: it clears the flag and returns
\* false, step() returns, and advanceFrame runs to its end
LeaveFrame(m) ==
    FlushLogic([m EXCEPT !.gba.seenFrame = FALSE, !.gba.stepping = FALSE])

(***************************************************************************)
(* Running and pausing.  The host runs one handler at a time; a timer that *)
(* window.setTimeout made is pending until it fires or is cleared.         *)
(***************************************************************************)
\* window.queueFrame(f): this.queue = window.setTimeout(f, throttle)
QueueFrame(m) ==
    [m EXCEPT !.gba.handles = @ + 1,
              !.gba.queue = m.gba.handles + 1,
              !.gba.timers = @ \cup {m.gba.handles + 1}]

\* gba.pause(): clearTimeout of a timer that has fired does nothing
GbaPause(m) ==
    IF m.gba.queue # 0
    THEN [m EXCEPT !.gba.paused = TRUE,
                   !.gba.timers = @ \ {m.gba.queue},
                   !.gba.queue = 0]
    ELSE [m EXCEPT !.gba.paused = TRUE]

\* gba.runStable()
GbaRunStable(m) == QueueFrame([m EXCEPT !.gba.paused = FALSE])

\* runFunc, the callback of timer h: it returns if the emulator is paused,
\* otherwise it queues itself again and calls advanceFrame
RunFunc(m, h) ==
    IF m.gba.paused THEN [m EXCEPT !.gba.timers = @ \ {h}]
    ELSE EnterFrame(QueueFrame([m EXCEPT !.gba.timers = @ \ {h}]))

(***************************************************************************)
(* Loading a cartridge.  An image is its byteLength, its header byte at    *)
(* 0xb2 and the characters it holds from 0xe4 on (text); no byte behind    *)
(* the text is a character of a save-type token.  A backup object is its   *)
(* class and size, the number id it was allocated under, and its           *)
(* writePending flag.                                                      *)
(***************************************************************************)
\* mmu.clear(): new RAM blocks, badMemory in the cartridge slots, no object
\* in the slots 4..7, the wait states of reset, no cart and no save
MmuClear(m) ==
    [m EXCEPT !.memory = [r \in 0..15 |->
                             IF r \in 4..7 THEN "absent"
                             ELSE MemoryMap(m.memory[REGION_BIOS])[r]],
              !.buffers = [r \in Blocks |-> <<>>],
              !.icache = [r \in Blocks |-> <<>>],
              !.pageBits = [r \in Blocks |->
                               IF r = REGION_WORKING_RAM THEN RAM_CACHE_BITS
                               ELSE IRAM_CACHE_BITS],
              !.waitstates = WaitStatesReset,
              !.rom = 0,
              !.cart = NoCart,
              !.save = NoSave,
              !.backupAt = NoBackups]

\* gba.reset(): mmu.clear(), io.clear(), the four mmap calls, resetCPU(0);
\* the BIOS view given to setBios stays
GbaReset(m) ==
    [MmuClear(m) EXCEPT !.memory = MemoryMap(m.memory[REGION_BIOS]),
                        !.registers = [i \in IoRegs |-> 0],
                        !.cpu = CpuReset]

\* the save-type tokens, and the case labels of the scanner that are not
\* terminal: the proper prefixes of the tokens
SaveTokens ==
    {<<"F", "L", "A", "S", "H", "_", "V">>,
     <<"F", "L", "A", "S", "H", "5", "1", "2", "_", "V">>,
     <<"F", "L", "A", "S", "H", "1", "M", "_", "V">>,
     <<"S", "R", "A", "M", "_", "V">>,
     <<"E", "E", "P", "R", "O", "M", "_", "V">>}

TokenPrefixes ==
    UNION {{SubSeq(t, 1, n) : n \in 1..(Len(t) - 1)} : t \in SaveTokens} \ SaveTokens

\* lines 859..904: the scan from text[i] on with the characters kept in
\* state; the token it stops at, <<>> if it reaches the end of the image
RECURSIVE ScanSaveType(_, _, _)
ScanSaveType(text, i, state) ==
    IF i > Len(text) THEN <<>>
    ELSE IF Append(state, text[i]) \in SaveTokens THEN Append(state, text[i])
    ELSE IF Append(state, text[i]) \in TokenPrefixes
    THEN ScanSaveType(text, i + 1, Append(state, text[i]))
    ELSE ScanSaveType(text, i + 1, <<text[i]>>)

\* lines 905..929: the backup a terminal state makes, and the slot it goes to
BackupFor(saveType, id) ==
    CASE saveType \in {<<"F", "L", "A", "S", "H", "_", "V">>,
                       <<"F", "L", "A", "S", "H", "5", "1", "2", "_", "V">>} ->
             [class |-> "flash", size |-> SIZE_CART_FLASH512, id |-> id,
              writePending |-> FALSE, data |-> <<>>]
      [] saveType = <<"F", "L", "A", "S", "H", "1", "M", "_", "V">> ->
             [class |-> "flash", size |-> SIZE_CART_FLASH1M, id |-> id,
              writePending |-> FALSE, data |-> <<>>]
      [] saveType = <<"S", "R", "A", "M", "_", "V">> ->
             [class |-> "sram", size |-> SIZE_CART_SRAM, id |-> id,
              writePending |-> FALSE, data |-> <<>>]
      [] saveType = <<"E", "E", "P", "R", "O", "M", "_", "V">> ->
             [class |-> "eeprom", size |-> SIZE_CART_EEPROM, id |-> id,
              writePending |-> FALSE, data |-> <<>>]

SlotFor(backup) ==
    IF backup.class = "eeprom" THEN REGION_CART2 + 1 ELSE REGION_CART_SRAM

\* this.save = this.memory[slot] = backup
Install(m, backup) ==
    [m EXCEPT !.save = backup,
              !.memory[SlotFor(backup)] = backup.class,
              !.backupAt[SlotFor(backup)] = backup.id]

\* lines 859..936: the backup of the token found; SRAM if there is no save yet
InstallBackup(m, saveType, id) ==
    IF saveType # <<>> THEN Install(m, BackupFor(saveType, id))
    ELSE IF m.save.class = "none"
    THEN Install(m, [class |-> "sram", size |-> SIZE_CART_SRAM, id |-> id,
                     writePending |-> FALSE, data |-> <<>>])
    ELSE m

\* a loadRom that maps the image in the first window only
MapFirstWindow(m, image) ==
    [m EXCEPT !.rom = image.size, !.memory[REGION_CART0] = "rom"]

\* lines 817..826: the view lo in the first slot of each window, and a view
\* hi behind it only for an image longer than 16 MiB
MapRom(m, image) ==
    [m EXCEPT !.rom = image.size,
              !.memory = [r \in DOMAIN @ |->
                             IF r \in {REGION_CART0, REGION_CART1, REGION_CART2}
                             THEN "rom"
                             ELSE IF /\ image.size > 16777216
                                     /\ r \in {REGION_CART0 + 1, REGION_CART1 + 1,
                                                REGION_CART2 + 1}
                             THEN "romHi"
                             ELSE @[r]],
              !.backupAt = [r \in DOMAIN @ |->
                               IF image.size > 16777216 /\ r = REGION_CART2 + 1
                               THEN 0 ELSE @[r]]]

\* this.cart = cart; return cart
WithCart(m, saveType, code) ==
    [m EXCEPT !.cart = [loaded |-> TRUE, saveType |-> saveType, code |-> code],
              !.result = [cart |-> [loaded |-> TRUE, saveType |-> saveType,
                                    code |-> code]],
              !.unsaved.sinceLoad = FALSE]

\* lines 839..847: the characters of the game code at 0xac, none in an image
\* whose byte there is zero
CodeOf(image) == IF "code" \in DOMAIN image THEN image.code ELSE <<>>

\* mmu.loadRom(rom, process): the header byte is read through a DataView
\* over the image; id numbers the backup object the call may allocate.  The
\* result is the cart object returned, NoCart for undefined.
LoadRom(m, image, process, id) ==
    IF ~InView(ROM_MAGIC_AT, 1, image.size) THEN Raise(m, "RangeError")
    ELSE IF image.magic # ROM_MAGIC THEN [m EXCEPT !.result = [cart |-> NoCart]]
    ELSE IF process
    THEN WithCart(InstallBackup(MapRom(m, image),
                                ScanSaveType(image.text, 1, <<>>), id),
                  ScanSaveType(image.text, 1, <<>>), CodeOf(image))
    ELSE WithCart(MapRom(m, image), <<>>, <<>>)

\* the operation notes what it was asked, next to what it returned
AskedFor(m, request) == [m EXCEPT !.result = request @@ @]

\* gba.setRom(rom)
Retrieved(m) ==
    IF m.raised # "none" \/ ~m.result.cart.loaded THEN m ELSE RetrieveSavedata(m)

GbaSetRom(m, image, id) == Retrieved(LoadRom(GbaReset(m), image, TRUE, id))

(***************************************************************************)
(* Snapshots.  A Blob or an ArrayBuffer is its size and its bytes, kept    *)
(* sparsely as the buffers are.  A string is the sequence of its character *)
(* codes.  A JavaScript object is the sequence of its own properties in    *)
(* insertion order when it is serialized, and a function from names to     *)
(* typed values when it has been deserialized.                             *)
(***************************************************************************)
\* new ArrayBuffer with the bytes given
BlobOf(bytes) == [size |-> Len(bytes), bytes |-> SetBytes(<<>>, 0, bytes)]

\* new Blob([a, b])
Join(a, b) ==
    [size |-> a.size + b.size,
     bytes |-> [i \in (DOMAIN a.bytes) \cup {j + a.size : j \in DOMAIN b.bytes} |->
                   IF i \in DOMAIN a.bytes THEN a.bytes[i] ELSE b.bytes[i - a.size]]]

\* the four bytes setUint32(0, value, true) writes, in address order
Uint32LE(value) ==
    <<value % 256, (value \div 256) % 256, (value \div 65536) % 256,
      (value \div 16777216) % 256>>

\* a pack that writes the most significant byte first
PackBE(value) == BlobOf(Reverse(Uint32LE(value)))

\* Serializer.pack(value)
Pack(value) == BlobOf(Uint32LE(value))

\* a JavaScript number that is an integer, as its halves: high * 65536 + low
\* with low in 0..65535; -1 is high -1 and low 65535, 4294967295 is high
\* 65535 and low 65535
Num(n) == [high |-> n \div 65536, low |-> n % 65536]

\* Serializer.pack(value) of a number property: setUint32 stores the value
\* modulo 2^32
PackNumber(x) ==
    BlobOf(<<x.low % 256, x.low \div 256, x.high % 256, (x.high \div 256) % 256>>)

\* Serializer.pack8(value)
Pack8(value) == BlobOf(<<value % 256>>)

\* Serializer.prefix(value) of a Blob or ArrayBuffer, and of a string
Prefix(value) == Join(Pack(value.size), value)
PrefixString(string) == Join(Pack(Len(string)), BlobOf(string))

\* the parts pushed for one property: pack8(tag), head, body
Tagged(tag, name, body) == Join(Pack8(tag), Join(PrefixString(name), body))

\* parts.unshift(pack(size)): size is 4 and, for each property,
\* 1 + head.size + the size of its body
Framed(parts) == Join(Pack(4 + parts.size), parts)

\* Serializer.serialize(stream)
RECURSIVE Serialize(_), Parts(_, _)
SerializeProperty(p) ==
    CASE p.type = "number" -> Tagged(TAG_INT, p.name, PackNumber(p.value))
      [] p.type = "string" -> Tagged(TAG_STRING, p.name, PrefixString(p.value))
      [] p.type = "blob" -> Tagged(TAG_BLOB, p.name, p.value)
      [] p.type = "struct" -> Tagged(TAG_STRUCT, p.name, Serialize(p.value))
      [] p.type = "boolean" ->
           Tagged(TAG_BOOLEAN, p.name, Pack8(IF p.value THEN 1 ELSE 0))

Parts(stream, i) ==
    IF i > Len(stream) THEN NoBlob
    ELSE Join(SerializeProperty(stream[i]), Parts(stream, i + 1))

Serialize(stream) == Framed(Parts(stream, 1))

\* the property names of a snapshot
Names ==
    [mmu |-> <<109, 109, 117>>, ram |-> <<114, 97, 109>>,
     iram |-> <<105, 114, 97, 109>>, io |-> <<105, 111>>,
     registers |-> <<114, 101, 103, 105, 115, 116, 101, 114, 115>>]

\* the buffer of a MemoryBlock
BlockBuffer(m, region) == [size |-> BlockSize(region), bytes |-> m.buffers[region]]

\* io.registers.buffer: the Uint16Array of SIZE_IO elements, low byte first
RegisterByte(regs, a) ==
    IF a \div 2 \notin DOMAIN regs THEN 0
    ELSE IF a % 2 = 0 THEN regs[a \div 2] % 256 ELSE regs[a \div 2] \div 256

RegistersBuffer(regs) ==
    [size |-> 2 * SIZE_IO,
     bytes |-> [a \in {b \in UNION {{2 * k, 2 * k + 1} : k \in DOMAIN regs} :
                          RegisterByte(regs, b) # 0} |->
                   RegisterByte(regs, a)]]

\* mmu.freeze()
MmuFreeze(m) ==
    <<[name |-> Names.ram, type |-> "blob",
       value |-> Prefix(BlockBuffer(m, REGION_WORKING_RAM))],
      [name |-> Names.iram, type |-> "blob",
       value |-> Prefix(BlockBuffer(m, REGION_WORKING_IRAM))]>>

\* io.freeze()
IoFreeze(m) ==
    <<[name |-> Names.registers, type |-> "blob",
       value |-> Prefix(RegistersBuffer(m.registers))]>>

\* gba.freeze(): the MMU and the I/O block of it
GbaFreeze(m) ==
    <<[name |-> Names.mmu, type |-> "struct", value |-> MmuFreeze(m)],
      [name |-> Names.io, type |-> "struct", value |-> IoFreeze(m)]>>

\* the host takes a snapshot: Serializer.serialize(gba.freeze())
TakeSnapshot(m) ==
    [m EXCEPT !.snapshot = Serialize(GbaFreeze(m)),
              !.frozen = [buffers |-> m.buffers, registers |-> m.registers]]

\* what a read of the stream gives: the value and the pointer behind it, or
\* the exception
Parsed(value, index) == [raised |-> "none", value |-> value, index |-> index]
Thrown(error) == [raised |-> error, value |-> <<>>, index |-> 0]

\* view.getUint32(index, true)
GetUint32(view, index) == UnsignedOf(GetLE(view.bytes, index, 4))

\* view.getUint32(index, true) as the body of a number: unsigned
NumberAt(view, index) ==
    [high |-> UnsignedOf(GetLE(view.bytes, index + 2, 2)),
     low |-> UnsignedOf(GetLE(view.bytes, index, 2))]

\* ArrayBuffer.slice(begin, end): both are clamped to the buffer
Clamp(i, size) == IF i > size THEN size ELSE i
Slice(view, begin, end) ==
    [size |-> IF Clamp(end, view.size) > Clamp(begin, view.size)
              THEN Clamp(end, view.size) - Clamp(begin, view.size) ELSE 0,
     bytes |-> [i \in {j - begin : j \in {k \in DOMAIN view.bytes :
                                            k >= begin /\ k < Clamp(end, view.size)}} |->
                   view.bytes[i + begin]]]

\* pointer.readString(view): the length, then a getUint8 for each character
StringFrom(view, index, length) ==
    IF ~InView(index, length, view.size) THEN Thrown("RangeError")
    ELSE Parsed([k \in 1..length |-> Byte(view.bytes, index + k - 1)], index + length)

ReadString(view, index) ==
    IF ~InView(index, 4, view.size) THEN Thrown("RangeError")
    ELSE StringFrom(view, index + 4, GetUint32(view, index))

\* a deserialized value
Typed(type, read) ==
    IF read.raised # "none" THEN read
    ELSE Parsed([type |-> type, value |-> read.value], read.index)

Undefined == [type |-> "undefined", value |-> <<>>]

\* object[name], undefined for a property the object does not have
Property(object, name) ==
    IF object.type = "struct" /\ name \in DOMAIN object.value
    THEN object.value[name] ELSE Undefined

\* Serializer.deserializeStream(view, pointer) with the pointer at index:
\* top is the index pushed, remaining the declared size
RECURSIVE DeserializeStream(_, _), ReadRecords(_, _, _, _, _)
BodyOf(view, tag, index) ==
    CASE tag = TAG_INT ->
           IF ~InView(index, 4, view.size) THEN Thrown("RangeError")
           ELSE Parsed([type |-> "number", value |-> NumberAt(view, index)], index + 4)
      [] tag = TAG_STRING -> Typed("string", ReadString(view, index))
      [] tag = TAG_STRUCT -> DeserializeStream(view, index)
      [] tag = TAG_BLOB ->
           IF ~InView(index, 4, view.size) THEN Thrown("RangeError")
           ELSE Parsed([type |-> "blob",
                        value |-> Slice(view, index + 4,
                                        index + 4 + GetUint32(view, index))],
                       index + 4 + GetUint32(view, index))
      [] tag = TAG_BOOLEAN ->
           IF ~InView(index, 1, view.size) THEN Thrown("RangeError")
           ELSE Parsed([type |-> "boolean", value |-> Byte(view.bytes, index) # 0],
                       index + 1)
      [] OTHER -> Parsed(Undefined, index)

\* object[head] = body, and the loop goes on
Assigned(view, top, remaining, head, body, object) ==
    IF body.raised # "none" THEN body
    ELSE ReadRecords(view, top, remaining, body.index,
                     (head :> body.value) @@ object)

ReadBody(view, top, remaining, tag, head, object) ==
    IF head.raised # "none" THEN head
    ELSE Assigned(view, top, remaining, head.value,
                  BodyOf(view, tag, head.index), object)

ReadRecords(view, top, remaining, index, object) ==
    IF index - top < remaining
    THEN IF ~InView(index, 1, view.size) THEN Thrown("RangeError")
         ELSE ReadBody(view, top, remaining, Byte(view.bytes, index),
                       ReadString(view, index + 1), object)
    ELSE IF index - top > remaining
    THEN Thrown("Size of serialized data exceeded")
    ELSE Parsed([type |-> "struct", value |-> object], index)

DeserializeStream(view, index) ==
    IF ~InView(index, 4, view.size) THEN Thrown("RangeError")
    ELSE ReadRecords(view, index, GetUint32(view, index), index + 4, <<>>)

\* a replaceData that keeps the icache it has
ReplaceDataKeepingPages(m, region, data) ==
    IF data.type # "blob" THEN Raise(m, "TypeError")
    ELSE [m EXCEPT !.buffers[region] = data.value.bytes]

\* MemoryView.replaceData(memory) of a block: the buffer and a new icache
ReplaceData(m, region, data) ==
    IF data.type # "blob" THEN Raise(m, "TypeError")
    ELSE [m EXCEPT !.buffers[region] = data.value.bytes,
                   !.icache[region] = <<>>,
                   !.dropped = @ \cup {<<region, id>> : id \in DOMAIN m.icache[region]}]

\* mmu.defrost(frost); the snapshots of the model hold whole RAM images
MmuDefrostIram(m, frost) ==
    IF m.raised # "none" THEN m
    ELSE ReplaceData(m, REGION_WORKING_IRAM, Property(frost, Names.iram))

MmuDefrost(m, frost) ==
    IF frost.type # "struct" THEN Raise(m, "TypeError")
    ELSE MmuDefrostIram(ReplaceData(m, REGION_WORKING_RAM, Property(frost, Names.ram)),
                        frost)

\* io.store16(offset, value) of the video registers the model follows
IoStoreVideo(m, offset, value) ==
    CASE offset = WININ ->
           [m EXCEPT !.registers[offset \div 2] =
                         (value % 64) + 256 * ((value \div 256) % 64)]
      [] offset = BLDY -> [m EXCEPT !.registers[offset \div 2] = value % 32]

\* new Uint16Array(buffer): RangeError for an odd byteLength; the elements
\* the buffer holds (the snapshots of the model hold the registers followed)
RegistersFrom(buffer) ==
    [k \in IoRegs |-> Byte(buffer.bytes, 2 * k) + 256 * Byte(buffer.bytes, 2 * k + 1)]

\* the loop of io.defrost: store16(i, registers[i >> 1]) up to BLDY
RestoreVideo(m) ==
    IoStoreVideo(IoStoreVideo(m, WININ, m.registers[WININ \div 2]),
                 BLDY, m.registers[BLDY \div 2])

\* io.defrost(frost)
IoDefrost(m, frost) ==
    IF frost.type # "struct" THEN Raise(m, "TypeError")
    ELSE IF Property(frost, Names.registers).type # "blob"
    THEN RestoreVideo([m EXCEPT !.registers = [k \in IoRegs |-> 0]])
    ELSE IF Property(frost, Names.registers).value.size % 2 # 0
    THEN Raise(m, "RangeError")
    ELSE RestoreVideo([m EXCEPT !.registers =
                           RegistersFrom(Property(frost, Names.registers).value)])

\* gba.defrost(frost): the MMU and the I/O block of it
GbaDefrostIo(m, frost) ==
    IF m.raised # "none" THEN m ELSE IoDefrost(m, Property(frost, Names.io))

GbaDefrost(m, frost) == GbaDefrostIo(MmuDefrost(m, Property(frost, Names.mmu)), frost)

\* Serializer.deserialize(blob, callback) with gba.defrost as the callback:
\* an exception of deserializeStream ends it before the callback
Defrosted(m, read) ==
    IF read.raised # "none" THEN Raise(m, read.raised)
    ELSE GbaDefrost(m, read.value)

Restore(m, blob) == Defrosted(m, DeserializeStream(blob, 0))

\* a snapshot file that lost its last n bytes
Cut(blob, n) == Slice(blob, 0, blob.size - n)

\* a snapshot file whose first size field was changed by n
Resized(blob, n) ==
    [blob EXCEPT !.bytes = SetBytes(@, 0, Uint32LE(GetUint32(blob, 0) + n))]

\* the file the host restores: the snapshot as taken, or damaged
Damaged(blob, damage) ==
    CASE damage.kind = "none" -> blob
      [] damage.kind = "cut" -> Cut(blob, damage.by)
      [] damage.kind = "resized" -> Resized(blob, damage.by)

(***************************************************************************)
(* Trees of the serializer.  A tree is the sequence of the properties of   *)
(* an object; a blob leaf is what Serializer.prefix makes of a buffer, as  *)
(* in the snapshots.                                                       *)
(***************************************************************************)
\* the object deserializeStream is to give back for a tree: a blob by the
\* bytes behind its length
RECURSIVE ObjectOf(_)
ValueOf(p) ==
    CASE p.type = "struct" -> [type |-> "struct", value |-> ObjectOf(p.value)]
      [] p.type = "blob" ->
           [type |-> "blob", value |-> Slice(p.value, 4, p.value.size)]
      [] OTHER -> [type |-> p.type, value |-> p.value]

ObjectOf(stream) ==
    [name \in {stream[i].name : i \in DOMAIN stream} |->
        ValueOf(stream[CHOOSE i \in DOMAIN stream : stream[i].name = name])]

\* the leaves, and the values of a property: a leaf, the empty struct, or a
\* struct of one leaf
Leaves ==
    <<[type |-> "number", value |-> Num(7)],
      [type |-> "number", value |-> Num(-1)],
      [type |-> "string", value |-> <<>>],
      [type |-> "string", value |-> <<104, 105>>],
      [type |-> "boolean", value |-> FALSE],
      [type |-> "boolean", value |-> TRUE],
      [type |-> "blob", value |-> Prefix(BlobOf(<<>>))],
      [type |-> "blob", value |-> Prefix(BlobOf(<<1, 200>>))]>>

\* the property named "a", "b", .. by its position i
PropertyAt(i, v) == [name |-> <<96 + i>>, type |-> v.type, value |-> v.value]

TreeValues ==
    Leaves \o <<[type |-> "struct", value |-> <<>>]>>
           \o [i \in DOMAIN Leaves |->
                  [type |-> "struct", value |-> <<PropertyAt(1, Leaves[i])>>]]

\* the object whose i-th property has the value numbered choice[i]
TreeOf(choice) == [i \in DOMAIN choice |-> PropertyAt(i, TreeValues[choice[i]])]

\* the host serializes a tree
Serialized(m, tree) ==
    [m EXCEPT !.result = [tree |-> tree, blob |-> Serialize(tree)]]

\* the host reads the blob back: deserializeStream(new DataView(buffer),
\* new Pointer())
Deserialized(m, request, got) ==
    [m EXCEPT !.raised = got.raised,
              !.result = [tree |-> request.tree, blob |-> request.blob,
                          value |-> got.value]]

(***************************************************************************)
(* 16-bit and 32-bit stores to the I/O block.                              *)
(***************************************************************************)
\* core.STUB(text): handed to the logger only at a log level that has
\* LOG_STUB, which the constructor does not set
Stub(m, text) == m

\* the default case of io.store16: STUB_REG('I/O', offset), and then the
\* statement behind the switch, this.registers[offset >> 1] = value; an
\* assignment behind the end of the typed array does nothing
IoStoreDefault(m, offset, value) ==
    IF offset \div 2 < SIZE_IO
    THEN [Stub(m, "Unimplemented I/O register write") EXCEPT
              !.registers[offset \div 2] = value]
    ELSE Stub(m, "Unimplemented I/O register write")

\* io.store16(offset, value), for the registers the model follows and for
\* the offsets that are no register
IoStore16(m, offset, value) ==
    CASE offset \in {WININ, BLDY} -> IoStoreVideo(m, offset, value)
      [] offset = WAITCNT -> IoStoreWaitcnt(m, value)
      [] offset \in CountOffsets -> IoStoreCount(m, ChannelAt(offset), value)
      [] offset \in ControlOffsets -> IoStoreControl(m, ChannelAt(offset), value)
      [] OTHER -> IoStoreDefault(m, offset, value)

\* a store32 that applies the high half first
IoStore32HighFirst(m, offset, low, high) ==
    LET first == IoStore16(m, offset + 2, high)
    IN IF first.raised # "none" THEN first
       ELSE IoStore16(first, offset, low)

\* io.store32(offset, value) with value = high * 65536 + low, for the
\* registers the model follows: the address registers have cases of their
\* own; DMAxCNT_LO and the other offsets take the default case, which is
\* store16(offset, value & 0xffff), then store16(offset | 2, value >>> 16)
IoStore32(m, offset, low, high) ==
    IF offset \in {2 * Reg(ch, k) : ch \in Channels, k \in {0, 2}}
    THEN IoStoreAddress(m, ChannelAt(offset), ((offset - DMA0SAD_LO) % 12) \div 2,
                        IF (offset - DMA0SAD_LO) % 12 = 0 THEN "source" ELSE "dest",
                        high * 65536 + low)
    ELSE LET first == IoStore16(m, offset, low)
         IN IF first.raised # "none" THEN first
            ELSE IoStore16(first, offset + 2, high)

(***************************************************************************)
(* Actions.  Each is one handler, run to its return or to the exception    *)
(* that ends it.                                                           *)
(***************************************************************************)
\* the slice has room for one more operation op
Within(in, op) ==
    /\ ops < in.budget
    /\ op = "control" => enables < in.maxControls

\* the state the handler op leaves: the machine m
Commit(m, op) ==
    /\ ops' = ops + 1
    /\ enables' = IF op = "control" THEN enables + 1 ELSE enables
    /\ memory' = m.memory
    /\ buffers' = m.buffers
    /\ icache' = m.icache
    /\ pageBits' = m.pageBits
    /\ waitstates' = m.waitstates
    /\ dma' = m.dma
    /\ registers' = m.registers
    /\ cpu' = m.cpu
    /\ rom' = m.rom
    /\ cart' = m.cart
    /\ save' = m.save
    /\ backupAt' = m.backupAt
    /\ gba' = m.gba
    /\ storage' = m.storage
    /\ snapshot' = m.snapshot
    /\ frozen' = m.frozen
    /\ dropped' = m.dropped
    /\ unsaved' = m.unsaved
    /\ warnings' = m.warnings
    /\ raised' = m.raised
    /\ calls' = m.calls
    /\ result' = m.result
    /\ last' = op

\* channel ch has been programmed since reset
Touched(ch) ==
    \/ dma[ch] # DmaReset
    \/ \E k \in 0..5 : registers[Reg(ch, k)] # 0

\* channel ch is the slice's to use: any channel of the slice, or, in a slice
\* that follows one channel at a time, only the channel already in use
InUse(in, ch) ==
    /\ ch \in in.channels
    /\ in.exclusive => \A c \in Channels \ {ch} : ~Touched(c)

\* the guest programs a channel's address and count registers once, before it
\* writes a control register
MayProgram(in, ch) == InUse(in, ch) /\ enables = 0

\* the CPU stores a word to RAM
Store32(in) ==
    \E st \in in.stores :
        /\ Within(in, "store32")
        /\ Commit(MmuStore32(Machine, st[1], st[2]), "store32")

\* the CPU stores a halfword to the I/O region: mmu.store16 hands the offset
\* to io.store16
StoreIo16(in) ==
    \E st \in in.ioStores :
        /\ Within(in, "store16")
        /\ Commit(Asked(IoStore16(Machine, st[1], st[2]),
                        [offset |-> st[1], value |-> st[2]]),
                  "store16")

\* the CPU stores a word to the I/O region: mmu.store32 hands the offset to
\* io.store32
StoreIo32(in) ==
    \E st \in in.ioWords :
        /\ Within(in, "ioStore32")
        /\ InUse(in, ChannelAt(st[1]))
        /\ Commit(Asked(IoStore32(Machine, st[1], st[2], st[3]),
                        [offset |-> st[1], low |-> st[2], high |-> st[3]]),
                  "ioStore32")

\* Serializer.serialize(tree)
CallSerialize(in) ==
    \E choice \in in.trees :
        /\ Within(in, "serialize")
        /\ Commit(Serialized(Machine, TreeOf(choice)), "serialize")

\* Serializer.deserializeStream of the blob serialized last
CallDeserializeStream(in) ==
    /\ last = "serialize"
    /\ Within(in, "deserializeStream")
    /\ Commit(Deserialized(Machine, result, DeserializeStream(result.blob, 0)),
              "deserializeStream")

\* the CPU stores a halfword to a video register
StoreVideo(in) ==
    \E st \in in.videoStores :
        /\ Within(in, "storeVideo")
        /\ Commit(IoStoreVideo(Machine, st[1], st[2]), "storeVideo")

\* the host, or storeSavedata, encodes the bytes of a view
Encoded(m, bytes) ==
    [m EXCEPT !.result = [bytes |-> bytes, string |-> EncodeBase64(BlobOf(bytes))]]

CallEncodeBase64(in) ==
    \E bytes \in in.byteStrings :
        /\ Within(in, "encodeBase64")
        /\ Commit(Encoded(Machine, bytes), "encodeBase64")

\* decodeSavedata decodes the string that was encoded
Decoded(m, request, got) ==
    [m EXCEPT !.raised = got.raised,
              !.result = [bytes |-> request.bytes, string |-> request.string,
                          value |-> got.value]]

CallDecodeBase64(in) ==
    /\ last = "encodeBase64"
    /\ Within(in, "decodeBase64")
    /\ Commit(Decoded(Machine, result, DecodeBase64(result.string)), "decodeBase64")

\* the host timer calls advanceFrame()
AdvanceFrame(in) ==
    /\ ~gba.stepping
    /\ Within(in, "advanceFrame")
    /\ Commit(EnterFrame(Machine), "advanceFrame")

\* an iteration of the loop of step(): waitFrame() found no frame seen
CpuStep(in) ==
    \E event \in in.steps :
        /\ gba.stepping /\ ~gba.seenFrame
        /\ Within(in, "cpuStep")
        /\ Commit(CpuStepped(Machine, event), "cpuStep")

\* waitFrame() found the frame seen: advanceFrame runs to its end
EndFrame(in) ==
    /\ gba.stepping /\ gba.seenFrame
    /\ Within(in, "endFrame")
    /\ Commit(LeaveFrame(Machine), "endFrame")

\* the host calls pause()
Pause(in) ==
    /\ ~gba.stepping
    /\ Within(in, "pause")
    /\ Commit(GbaPause(Machine), "pause")

\* the host calls runStable()
RunStable(in) ==
    /\ ~gba.stepping
    /\ gba.handles < in.maxHandles
    /\ Within(in, "runStable")
    /\ Commit(GbaRunStable(Machine), "runStable")

\* a pending frame timer fires
TimerFires(in) ==
    \E h \in gba.timers :
        /\ ~gba.stepping
        /\ gba.paused \/ gba.handles < in.maxHandles
        /\ Within(in, "runFunc")
        /\ Commit(Asked(RunFunc(Machine, h), [timer |-> h]), "runFunc")

\* the user presses or releases a key: the keydown or keyup event reaches
\* keyboardHandler
KeyEvent(in) ==
    \E type \in {"keydown", "keyup"}, keyCode \in in.keys :
        /\ type = "keyup" => keyCode \in gba.keypad.held
        /\ Within(in, type)
        /\ Commit(Asked([Machine EXCEPT
                            !.gba.keypad =
                                [KeyboardHandler(@, type, keyCode) EXCEPT
                                    !.held = IF type = "keydown"
                                             THEN @ \cup {keyCode}
                                             ELSE @ \ {keyCode}]],
                        [keyCode |-> keyCode]),
                  type)

\* the host starts the remapping of a button
StartRemap(in) ==
    \E keyId \in in.keyIds :
        /\ Within(in, "initKeycodeRemap")
        /\ Commit([Machine EXCEPT !.gba.keypad = InitKeycodeRemap(@, keyId)],
                  "initKeycodeRemap")

\* pollGamepads() with one pad connected
PollGamepads(in) ==
    \E over \in in.pads :
        /\ Within(in, "pollGamepads")
        /\ Commit([Machine EXCEPT !.gba.keypad = GamepadHandler(@, "pad", over)],
                  "pollGamepads")

\* the host takes a snapshot
Freeze(in) ==
    /\ Within(in, "freeze")
    /\ Commit(TakeSnapshot(Machine), "freeze")

\* the host restores the snapshot it holds, from a file that may be damaged
Defrost(in) ==
    \E damage \in in.damages :
        /\ snapshot # NoBlob
        /\ Within(in, "defrost")
        /\ Commit(Asked(Restore(Machine, Damaged(snapshot, damage)),
                        [damage |-> damage]),
                  "defrost")

\* the CPU fetches from a RAM block
AccessPage(in) ==
    \E a \in in.fetchFrom :
        /\ Within(in, "accessPage")
        /\ Commit(AccessPageOf(Machine, RegionOf(a),
                               AddressToPage(Machine, RegionOf(a),
                                             LowBits(a, BASE_OFFSET))),
                  "accessPage")

\* the CPU stores a byte, a halfword or a word through the bus
Store(in) ==
    \E st \in in.writes :
        /\ Within(in, "store")
        /\ Commit(Asked(MmuStore(Machine, st[1], st[2]),
                        [address |-> st[1], width |-> Len(st[2])]),
                  "store")

\* the host loads a cartridge image
SetRom(in) ==
    \E image \in in.images :
        /\ ~gba.stepping
        /\ Within(in, "setRom")
        /\ Commit(Asked(GbaSetRom(Machine, image, ops + 1), [image |-> image]),
                  "setRom")

\* mmu.loadRom(rom, process)
CallLoadRom(in) ==
    \E image \in in.images, process \in BOOLEAN :
        /\ Within(in, "loadRom")
        /\ Commit(AskedFor(LoadRom(Machine, image, process, ops + 1),
                           [image |-> image, process |-> process]),
                  "loadRom")

\* mmu.clear()
Clear(in) ==
    /\ Within(in, "clear")
    /\ Commit(MmuClear(Machine), "clear")

\* the CPU goes on at another address, in ARM or in Thumb state
Branch(in) ==
    \E pc \in in.pcs, mode \in {"ARM", "THUMB"} :
        /\ Within(in, "branch")
        /\ Commit([Machine EXCEPT !.cpu = CpuAt(@, pc, mode)], "branch")

\* the CPU loads a byte, a halfword or a word through the bus
Load(in) ==
    \E a \in in.reads, op \in DOMAIN Widths :
        /\ Within(in, "load")
        /\ Commit(Returned(Machine, <<a, op>>, MmuLoad(Machine, a, op, 1)), "load")

\* the guest writes the wait-state control register
StoreWaitcnt(in) ==
    \E half \in in.waitcnts :
        /\ Within(in, "waitcnt")
        /\ Commit(Asked(IoStoreWaitcnt(Machine, half), [value |-> half]), "waitcnt")

\* the CPU charges an access
CpuWait(in) ==
    \E kind \in DOMAIN WaitVectors, a \in in.addresses :
        /\ Within(in, "wait")
        /\ Commit(Asked(Wait(Machine, kind, a), [kind |-> kind, address |-> a]), "wait")

\* the CPU charges a multiplication
CpuWaitMul(in) ==
    \E rs \in in.multipliers :
        /\ Within(in, "waitMul")
        /\ Commit(Asked(WaitMul(Machine, rs), [rs |-> rs]), "waitMul")

\* the CPU charges a block transfer of seq words
CpuWaitMulti32(in) ==
    \E a \in in.addresses, n \in in.lengths :
        /\ Within(in, "waitMulti32")
        /\ Commit(Asked(WaitMulti32(Machine, a, n), [address |-> a, seq |-> n]),
                  "waitMulti32")

SetSource(in) ==
    \E ch \in Channels, w \in in.sources :
        /\ Within(in, "source")
        /\ MayProgram(in, ch)
        /\ dma[ch].source = 0
        /\ Commit(IoStoreAddress(Machine, ch, 0, "source", w), "source")

SetDest(in) ==
    \E ch \in Channels, w \in in.dests :
        /\ Within(in, "dest")
        /\ MayProgram(in, ch)
        /\ dma[ch].dest = 0
        /\ Commit(IoStoreAddress(Machine, ch, 2, "dest", w), "dest")

SetWordCount(in) ==
    \E ch \in Channels, n \in in.counts :
        /\ Within(in, "count")
        /\ MayProgram(in, ch)
        /\ dma[ch].count = 0
        /\ Commit(IoStoreCount(Machine, ch, n), "count")

WriteControl(in) ==
    \E ch \in Channels, c \in in.controls :
        /\ Within(in, "control")
        /\ InUse(in, ch)
        /\ Commit(IoStoreControl(Machine, ch, c), "control")

RunVblankDmas(in) ==
    /\ Within(in, "vblank")
    /\ Commit(RunDmas(Machine, DMA_TIMING_VBLANK, 0), "vblank")

RunHblankDmas(in) ==
    /\ Within(in, "hblank")
    /\ Commit(RunDmas(Machine, DMA_TIMING_HBLANK, 0), "hblank")

\* a collaborator calls mmu.serviceDma(ch, irq.dma[ch]) itself, as the audio
\* FIFO does for a channel handed to it
CallServiceDma(in) ==
    \E ch \in Channels :
        /\ Within(in, "service")
        /\ InUse(in, ch)
        /\ Commit(ServiceDma(Machine, ch, 1), "service")

(***************************************************************************)
(* The copy slice: one channel, immediate transfers between the RAM        *)
(* blocks.  0x02000000 is on-board RAM, 0x03000000 on-chip RAM;            *)
(* 0x12000006 is 0x02000006 once masked to 28 bits.                        *)
(***************************************************************************)
MaxCopyOps == 6
MaxCopyControls == 1

CopyInputs ==
    [budget |-> MaxCopyOps,
     maxControls |-> MaxCopyControls,
     channels |-> {3},
     exclusive |-> TRUE,
     stores |-> {<<33554432, <<17, 34, 51, 68>> >>, <<33554436, <<85, 102, 119, 136>> >>,
                 <<50331776, <<1, 2, 3, 4>> >>},
     fetchFrom |-> {50331648, 50331776},
     sources |-> {33554432, 301989894},
     dests |-> {50331772, 50331776},
     counts |-> {1, 2},
     controls |-> {32768, 33792, 34048, 33824, 32832, 33888}]

CopyNext ==
    \/ Store32(CopyInputs)
    \/ AccessPage(CopyInputs)
    \/ SetSource(CopyInputs)
    \/ SetDest(CopyInputs)
    \/ SetWordCount(CopyInputs)
    \/ WriteControl(CopyInputs)

SpecCopy == Init /\ [][CopyNext]_vars

(***************************************************************************)
(* The scheduling slice: one channel at a time, every channel, every       *)
(* timing; the video collaborator's blanking events and a collaborator's   *)
(* direct serviceDma call.  0x09000000 is an open-bus address (no          *)
(* cartridge); an address register left at 0 points into the BIOS slot.    *)
(***************************************************************************)
MaxOps == 5
MaxControls == 2

Inputs ==
    [budget |-> MaxOps,
     maxControls |-> MaxControls,
     channels |-> Channels,
     exclusive |-> TRUE,
     stores |-> {},
     fetchFrom |-> {},
     sources |-> {33554432, 150994944},
     dests |-> {50331648, 150994944},
     counts |-> {2},
     controls |-> {32768, 33280, 36864, 37376, 37472, 38400, 41472, 45056, 4096, 49152}]

Next ==
    \/ SetSource(Inputs)
    \/ SetDest(Inputs)
    \/ SetWordCount(Inputs)
    \/ WriteControl(Inputs)
    \/ RunVblankDmas(Inputs)
    \/ RunHblankDmas(Inputs)
    \/ CallServiceDma(Inputs)

Spec == Init /\ [][Next]_vars

(***************************************************************************)
(* The blanking slice: the four channels side by side, armed for the       *)
(* video collaborator's vblank and hblank events.                          *)
(***************************************************************************)
MaxBlankOps == 5
MaxBlankControls == 3

BlankInputs ==
    [budget |-> MaxBlankOps,
     maxControls |-> MaxBlankControls,
     channels |-> Channels,
     exclusive |-> FALSE,
     stores |-> {},
     fetchFrom |-> {},
     sources |-> {},
     dests |-> {50331648},
     counts |-> {},
     controls |-> {36864, 37376, 40960, 41472}]

BlankNext ==
    \/ SetDest(BlankInputs)
    \/ WriteControl(BlankInputs)
    \/ RunVblankDmas(BlankInputs)
    \/ RunHblankDmas(BlankInputs)

SpecBlank == Init /\ [][BlankNext]_vars

(***************************************************************************)
(* The cache slice: the CPU fetches from the two RAM blocks and stores     *)
(* bytes, halfwords and words into them.                                   *)
(***************************************************************************)
MaxCacheOps == 5

CacheInputs ==
    [budget |-> MaxCacheOps,
     maxControls |-> 0,
     channels |-> {},
     exclusive |-> TRUE,
     fetchFrom |-> {33554432, 50331648, 50331776, 50332672},
     writes |-> {<<33554432, <<17, 34, 51, 68>> >>,
                 <<50331648, <<1, 2, 3, 4>> >>,
                 <<50331776, <<5, 6, 7, 8>> >>,
                 <<50331778, <<9, 10>> >>,
                 <<50332673, <<11>> >>}]

CacheNext ==
    \/ AccessPage(CacheInputs)
    \/ Store(CacheInputs)

SpecCache == Init /\ [][CacheNext]_vars

(***************************************************************************)
(* The timing slice: the guest writes WAITCNT, the CPU charges accesses,   *)
(* multiplications and block transfers.  The addresses are on-board RAM,   *)
(* the three cartridge windows (one in each half), the save region and an  *)
(* address above the mapped regions.                                       *)
(***************************************************************************)
MaxWaitOps == 3

WaitInputs ==
    [budget |-> MaxWaitOps,
     maxControls |-> 0,
     channels |-> {},
     exclusive |-> TRUE,
     waitcnts |-> {0, 16404, 18431, 682, 341, 9216, 65535, 17175},
     addresses |-> {33554432, 134217728, 184549376, 201326592, 234881024, 268435456},
     multipliers |-> {0, 255, 256, 257, 65534, 65536, 16777216, 305419777,
                      2147483646, -2},
     lengths |-> {0, 1, 3}]

WaitNext ==
    \/ StoreWaitcnt(WaitInputs)
    \/ CpuWait(WaitInputs)
    \/ CpuWaitMul(WaitInputs)
    \/ CpuWaitMulti32(WaitInputs)

SpecWait == Init /\ [][WaitNext]_vars

(***************************************************************************)
(* The load slice: the host loads a cartridge image, the CPU stores, goes  *)
(* on elsewhere and loads.  The reads lie in the BIOS (the first words,    *)
(* the last bytes and behind the image), in RAM, in the first cartridge    *)
(* window (inside the image and behind it), and on the open bus.           *)
(***************************************************************************)
MaxLoadOps == 3

LoadInputs ==
    [budget |-> MaxLoadOps,
     maxControls |-> 0,
     channels |-> {},
     exclusive |-> TRUE,
     images |-> {[size |-> 128, magic |-> 0, text |-> <<>>],
                 [size |-> 256, magic |-> ROM_MAGIC, text |-> <<>>],
                 [size |-> 512, magic |-> ROM_MAGIC, text |-> <<>>]},
     pcs |-> {33554688, 50331652, 268435460},
     writes |-> {<<33554686, <<171, 205>> >>, <<50331648, <<129, 195, 165, 231>> >>,
                 <<268435456, <<1, 2, 3, 4>> >>, <<134217728, <<5, 6, 7, 8>> >>},
     reads |-> {0, 1, 2, 3, 16381, 16383, 16384, 16385,
                50331648, 50331649, 50331650, 50331651, 33554686, 33816575,
                134217728, 134217729, 134217730, 134217731, 134217906, 134217983,
                134217984, 134217986, 134218239, 134218240, 167772161,
                268435456, 268435458, 16777217, 150994944}]

LoadNext ==
    \/ SetRom(LoadInputs)
    \/ Branch(LoadInputs)
    \/ Store(LoadInputs)
    \/ Load(LoadInputs)

SpecLoad == Init /\ [][LoadNext]_vars

(***************************************************************************)
(* The cartridge slice: the host calls mmu.clear() and mmu.loadRom() with  *)
(* images of every save type, without a token, with a wrong header byte,   *)
(* with a token behind a partial prefix of one, with two tokens, and with  *)
(* an image longer than 16 MiB.                                            *)
(***************************************************************************)
MaxRomOps == 3

RomInputs ==
    [budget |-> MaxRomOps,
     maxControls |-> 0,
     channels |-> {},
     exclusive |-> TRUE,
     images |->
        {[size |-> 512, magic |-> 0, text |-> <<"S", "R", "A", "M", "_", "V">>],
         [size |-> 256, magic |-> ROM_MAGIC, text |-> <<>>],
         [size |-> 512, magic |-> ROM_MAGIC, text |-> <<"S", "R", "A", "M", "_", "V", "1">>],
         [size |-> 8192, magic |-> ROM_MAGIC,
          text |-> <<"x", "E", "E", "P", "R", "O", "M", "_", "V", "1", "2", "3">>],
         [size |-> 512, magic |-> ROM_MAGIC, text |-> <<"F", "L", "A", "S", "H", "_", "V">>],
         [size |-> 512, magic |-> ROM_MAGIC,
          text |-> <<"F", "L", "A", "S", "H", "5", "1", "2", "_", "V">>],
         [size |-> 512, magic |-> ROM_MAGIC,
          text |-> <<"S", "R", "A", "F", "L", "A", "S", "H", "1", "M", "_", "V">>],
         [size |-> 512, magic |-> ROM_MAGIC,
          text |-> <<"E", "E", "E", "P", "R", "O", "M", "_", "V">>],
         [size |-> 512, magic |-> ROM_MAGIC,
          text |-> <<"F", "L", "A", "S", "H", "1", "S", "R", "A", "M", "_", "V",
                     "E", "E", "P", "R", "O", "M", "_", "V">>],
         [size |-> 16777728, magic |-> ROM_MAGIC,
          text |-> <<"E", "E", "P", "R", "O", "M", "_", "V">>]}]

RomNext ==
    \/ Clear(RomInputs)
    \/ CallLoadRom(RomInputs)

SpecRom == Init /\ [][RomNext]_vars

(***************************************************************************)
(* The snapshot slice: the guest stores to both RAM blocks and to video    *)
(* registers, the host takes snapshots and restores the last one, from the *)
(* file as written, from one that lost bytes at its end, and from one      *)
(* whose first size field is off by one.                                   *)
(***************************************************************************)
MaxFrostOps == 5

FrostInputs ==
    [budget |-> MaxFrostOps,
     maxControls |-> 0,
     writes |-> {<<33554432, <<17, 34, 51, 68>> >>,
                 <<33816575, <<255>> >>,
                 <<50331652, <<5, 6>> >>},
     videoStores |-> {<<WININ, 65535>>, <<BLDY, 63>>, <<BLDY, 5>>},
     damages |-> {[kind |-> "none", by |-> 0],
                  [kind |-> "cut", by |-> 1024],
                  [kind |-> "resized", by |-> 1],
                  [kind |-> "resized", by |-> -1]}]

FrostNext ==
    \/ Store(FrostInputs)
    \/ StoreVideo(FrostInputs)
    \/ Freeze(FrostInputs)
    \/ Defrost(FrostInputs)

SpecFrost == Init /\ [][FrostNext]_vars

(***************************************************************************)
(* The base64 slice: every byte string of up to MaxBytes bytes out of      *)
(* three values is encoded, and the string decoded.                        *)
(***************************************************************************)
MaxBytes == 4
MaxBase64Ops == 2

Base64Inputs ==
    [budget |-> MaxBase64Ops,
     maxControls |-> 0,
     byteStrings |-> UNION {[1..n -> {0, 77, 255}] : n \in 0..MaxBytes}]

Base64Next ==
    \/ CallEncodeBase64(Base64Inputs)
    \/ CallDecodeBase64(Base64Inputs)

SpecBase64 == Init /\ [][Base64Next]_vars

(***************************************************************************)
(* The frame slice: the host loads one of two games with an SRAM backup    *)
(* and calls advanceFrame; an instruction of a frame does nothing the      *)
(* model follows, stores a byte to the backup, ends the frame, or both.    *)
(***************************************************************************)
MaxFrameOps == 8

FrameInputs ==
    [budget |-> MaxFrameOps,
     maxControls |-> 0,
     images |-> {[size |-> 256, magic |-> ROM_MAGIC, text |-> <<>>,
                  code |-> <<"A", "X", "V", "E">>],
                 [size |-> 512, magic |-> ROM_MAGIC,
                  text |-> <<"S", "R", "A", "M", "_", "V", "1">>,
                  code |-> <<"B", "P", "R", "E">>]},
     steps |-> {[store |-> <<>>, vblank |-> FALSE],
                [store |-> <<0, 1>>, vblank |-> FALSE],
                [store |-> <<>>, vblank |-> TRUE],
                [store |-> <<32767, 255>>, vblank |-> TRUE]}]

FrameNext ==
    \/ SetRom(FrameInputs)
    \/ AdvanceFrame(FrameInputs)
    \/ CpuStep(FrameInputs)
    \/ EndFrame(FrameInputs)

SpecFrame == Init /\ [][FrameNext]_vars

(***************************************************************************)
(* The bus slice: the host loads a game or an image whose header byte is   *)
(* wrong, the guest loads bytes, halfwords and words from the RAM blocks   *)
(* and the I/O region and stores halfwords to I/O offsets, the host takes  *)
(* snapshots.  0x0203ffff and 0x03007fff are the last bytes of the   *)
(* RAM blocks; 0x0400004e and 0x04000800 are no registers, the second lies *)
(* behind io.registers.                                                    *)
(***************************************************************************)
MaxBusOps == 4

BusInputs ==
    [budget |-> MaxBusOps,
     maxControls |-> 0,
     images |-> {[size |-> 512, magic |-> ROM_MAGIC,
                  text |-> <<"S", "R", "A", "M", "_", "V", "1">>,
                  code |-> <<"B", "P", "R", "E">>],
                 [size |-> 512, magic |-> 0,
                  text |-> <<"S", "R", "A", "M", "_", "V", "1">>,
                  code |-> <<"B", "P", "R", "E">>]},
     writes |-> {<<33816574, <<171, 205>> >>},
     ioStores |-> {<<MOSAIC + 2, 4660>>, <<2 * SIZE_IO, 4660>>, <<WININ, 65535>>},
     reads |-> {33554433, 33816575, 50364415,
                67108864 + WININ, 67108864 + MOSAIC + 2, 67108864 + BLDY}]

BusNext ==
    \/ SetRom(BusInputs)
    \/ Load(BusInputs)
    \/ Store(BusInputs)
    \/ StoreIo16(BusInputs)
    \/ Freeze(BusInputs)

SpecBus == Init /\ [][BusNext]_vars

(***************************************************************************)
(* The serializer slice: every tree of up to MaxProps properties whose     *)
(* values are numbers (7 and -1), strings ("" and "hi"), booleans, blobs    *)
(* (of no byte and of two bytes) and structs of up to one such leaf is     *)
(* serialized, and the blob read back.                                     *)
(***************************************************************************)
MaxProps == 2
MaxTreeOps == 2

TreeInputs ==
    [budget |-> MaxTreeOps,
     maxControls |-> 0,
     trees |-> UNION {[1..k -> DOMAIN TreeValues] : k \in 0..MaxProps}]

TreeNext ==
    \/ CallSerialize(TreeInputs)
    \/ CallDeserializeStream(TreeInputs)

SpecTree == Init /\ [][TreeNext]_vars

(***************************************************************************)
(* The alignment slice: one channel, immediate transfers of one or two     *)
(* units between the RAM blocks, with programmed addresses that are        *)
(* aligned, odd, and even but not word-aligned.                            *)
(***************************************************************************)
MaxAlignOps == 5
MaxAlignControls == 1

AlignInputs ==
    [budget |-> MaxAlignOps,
     maxControls |-> MaxAlignControls,
     channels |-> {3},
     exclusive |-> TRUE,
     stores |-> {<<33554432, <<17, 34, 51, 68>> >>, <<33554436, <<85, 102, 119, 136>> >>},
     sources |-> {33554432, 33554433},
     dests |-> {50331648, 50331649, 50331650},
     counts |-> {1, 2},
     controls |-> {32768, 33792}]

AlignNext ==
    \/ Store32(AlignInputs)
    \/ SetSource(AlignInputs)
    \/ SetDest(AlignInputs)
    \/ SetWordCount(AlignInputs)
    \/ WriteControl(AlignInputs)

SpecAlign == Init /\ [][AlignNext]_vars

(***************************************************************************)
(* The word slice: the guest programs channel 3 and then writes count and  *)
(* control, either with one 32-bit store to DMA3CNT_LO or with 16-bit      *)
(* stores.                                                                 *)
(***************************************************************************)
MaxWordOps == 6

WordInputs ==
    [budget |-> MaxWordOps,
     maxControls |-> 1,
     channels |-> {3},
     exclusive |-> TRUE,
     stores |-> {<<33554432, <<17, 34, 51, 68>> >>, <<33554436, <<85, 102, 119, 136>> >>},
     sources |-> {33554432},
     dests |-> {50331648},
     counts |-> {1, 3},
     controls |-> {33792, 32768},
     ioWords |-> {<<2 * Reg(3, 4), 2, 33792>>, <<2 * Reg(3, 4), 2, 32768>>,
                  <<2 * Reg(3, 4), 1, 1024>>, <<2 * Reg(3, 0), 4, 512>>}]

WordNext ==
    \/ Store32(WordInputs)
    \/ SetSource(WordInputs)
    \/ SetDest(WordInputs)
    \/ SetWordCount(WordInputs)
    \/ WriteControl(WordInputs)
    \/ StoreIo32(WordInputs)

SpecWord == Init /\ [][WordNext]_vars

(***************************************************************************)
(* The page slice: the CPU fetches from the two RAM blocks and stores into *)
(* them, the host takes a snapshot and restores it.                        *)
(***************************************************************************)
MaxPageOps == 5

PageInputs ==
    [budget |-> MaxPageOps,
     maxControls |-> 0,
     fetchFrom |-> {33554432, 50331648, 50332672},
     writes |-> {<<50331648, <<1, 2, 3, 4>> >>, <<33554432, <<17, 34>> >>},
     damages |-> {[kind |-> "none", by |-> 0], [kind |-> "cut", by |-> 1024]}]

PageNext ==
    \/ AccessPage(PageInputs)
    \/ Store(PageInputs)
    \/ Freeze(PageInputs)
    \/ Defrost(PageInputs)

SpecPage == Init /\ [][PageNext]_vars

(***************************************************************************)
(* The run slice: the host calls runStable() and pause() in any order, the *)
(* frame timers fire, and a frame that was entered runs to its end.        *)
(***************************************************************************)
MaxRunOps == 7
MaxHandles == 4

RunInputs ==
    [budget |-> MaxRunOps,
     maxControls |-> 0,
     maxHandles |-> MaxHandles,
     steps |-> {[store |-> <<>>, vblank |-> TRUE]}]

RunNext ==
    \/ RunStable(RunInputs)
    \/ Pause(RunInputs)
    \/ TimerFires(RunInputs)
    \/ CpuStep(RunInputs)
    \/ EndFrame(RunInputs)

SpecRun == Init /\ [][RunNext]_vars

(***************************************************************************)
(* The keypad slice: the keys Z (A), X (B) and Q (no button at first) go   *)
(* down and up, the host remaps A and B, a pad is polled.                  *)
(***************************************************************************)
MaxKeyOps == 5

KeyInputs ==
    [budget |-> MaxKeyOps,
     maxControls |-> 0,
     keys |-> {90, 88, 81},
     keyIds |-> {"A", "B", "TURBO"},
     pads |-> {{}, {"A"}, {"A", "L"}}]

KeyNext ==
    \/ KeyEvent(KeyInputs)
    \/ StartRemap(KeyInputs)
    \/ PollGamepads(KeyInputs)

SpecKeys == Init /\ [][KeyNext]_vars

(***************************************************************************)
(* Properties of the scheduling slice.                                     *)
(***************************************************************************)
\* serviceDma went past its test of enable on channel ch in the last operation
Serviced(ch) == \E i \in DOMAIN calls : calls[i] = [ch |-> ch, ran |-> TRUE]

\* C1: every DMA control-register write returns after finitely many
\* serviceDma invocations, for every channel, timing, repeat and enable: with
\* a BIOS mapped, no control write ends in an exception.
C1_ControlWriteReturns ==
    (last = "control" /\ memory[REGION_BIOS] = "bios") => raised = "none"

\* C2: when serviceDma has run on an enabled, non-repeating channel and has
\* returned, the channel's enable is false and bit 15 of its DMAxCNT_HI
\* register is 0, also when the service was triggered by the store to
\* DMAxCNT_HI itself.
C2_EnableCleared ==
    \A ch \in Channels :
        (raised = "none" /\ Serviced(ch) /\ ~dma[ch].repeat)
        => /\ ~dma[ch].enable
           /\ Bits(registers[Reg(ch, 5)], 15, 1) = 0

\* a store to DMAxCNT_HI with enable set and immediate timing has serviced a
\* non-repeating channel synchronously and has returned
C2_Witness ==
    \E ch \in Channels :
        /\ last = "control"
        /\ raised = "none"
        /\ calls = <<[ch |-> ch, ran |-> TRUE]>>
        /\ dma[ch].timing = DMA_TIMING_NOW
        /\ ~dma[ch].repeat
        /\ ~dma[ch].enable
        /\ registers[Reg(ch, 5)] # 0

\* C4: after a non-repeating DMA of N >= 1 units has completed, the channel's
\* nextCount is 0.
C4_NoWorkRemains ==
    \A ch \in Channels :
        (/\ last = "control"
         /\ raised = "none"
         /\ calls = <<[ch |-> ch, ran |-> TRUE]>>
         /\ ~dma[ch].repeat
         /\ dma[ch].count >= 1)
        => dma[ch].nextCount = 0

\* the address a transfer of the remaining units of info stops at: the
\* destination, word-aligned by a 32-bit transfer, moved by one step per unit;
\* a transfer refused for an absent source does not move
Reached(m, info) ==
    IF KindOf(m, RegionOf(info.nextSource)) = "absent" THEN info.nextDest
    ELSE info.nextDest - (IF info.width = 4 THEN info.nextDest % 4 ELSE 0)
         + info.nextCount * DMA_OFFSET[info.dstControl + 1] * info.width

\* C5: when serviceDma completes on a repeating channel, nextCount is the
\* programmed count, enable is still true, and nextDest is the programmed dest
\* if dstControl is incrementReload and the address the transfer reached
\* otherwise.
C5_RepeatReloads ==
    [][\A ch \in Channels :
          (raised' = "none" /\ calls' = <<[ch |-> ch, ran |-> TRUE]>> /\ dma'[ch].repeat)
          => /\ dma'[ch].nextCount = dma'[ch].count
             /\ dma'[ch].enable
             /\ dma'[ch].nextDest =
                    IF dma'[ch].dstControl = DMA_INCREMENT_RELOAD
                    THEN dma'[ch].dest
                    ELSE Reached(Machine, dma[ch])]_vars

\* a repeating incrementReload channel has been serviced at a blanking event:
\* its nextDest is back at the programmed dest, its nextCount at the count
C5_Witness ==
    \E ch \in Channels :
        /\ last \in {"vblank", "hblank"}
        /\ raised = "none"
        /\ calls = <<[ch |-> ch, ran |-> TRUE]>>
        /\ dma[ch].repeat
        /\ dma[ch].dstControl = DMA_INCREMENT_RELOAD
        /\ dma[ch].count >= 1
        /\ dma[ch].nextCount = dma[ch].count
        /\ dma[ch].dest # 0
        /\ dma[ch].nextDest = dma[ch].dest

\* the last operation left memory, the channel records, the I/O registers and
\* the instruction caches as they were, logged nothing and raised nothing
Untouched ==
    /\ buffers' = buffers
    /\ dma' = dma
    /\ registers' = registers
    /\ icache' = icache
    /\ pageBits' = pageBits
    /\ warnings' = <<>>
    /\ raised' = "none"

\* C6: serviceDma on a channel whose enable is false transfers nothing and
\* changes nothing; a blanking event that finds no channel enabled services
\* none and changes nothing.
C6_CancelledIsNoOp ==
    [][/\ (/\ last' = "service"
           /\ \E ch \in Channels : calls'[1].ch = ch /\ ~dma[ch].enable)
          => Untouched
       /\ (last' \in {"vblank", "hblank"} /\ \A ch \in Channels : ~dma[ch].enable)
          => (calls' = <<>> /\ Untouched)]_vars

\* serviceDma has been called on a channel that was enabled for vblank, with
\* units to transfer, and disabled again before it was serviced
C6_Witness ==
    \E ch \in Channels :
        /\ last = "service"
        /\ calls = <<[ch |-> ch, ran |-> FALSE]>>
        /\ dma[ch].timing = DMA_TIMING_VBLANK
        /\ dma[ch].nextCount >= 1
        /\ ~dma[ch].enable

\* the slot of address holds no usable region: nothing, or open bus
Unusable(m, address) == KindOf(m, RegionOf(address)) \in {"absent", "bad"}

\* C9: when the source or the destination slot of a DMA holds no usable
\* region, serviceDma logs a warning, changes no memory, raises nothing, and a
\* non-repeating channel is disabled and its register's enable bit cleared.
C9_UnusableSlotSkipped ==
    [][\A ch \in Channels :
          (/\ last' = "control"
           /\ ~dma[ch].enable
           /\ calls' # <<>>
           /\ calls'[1] = [ch |-> ch, ran |-> TRUE]
           /\ ~dma'[ch].repeat
           /\ Unusable(Machine, dma[ch].source) \/ Unusable(Machine, dma[ch].dest))
          => /\ raised' = "none"
             /\ warnings' # <<>>
             /\ buffers' = buffers
             /\ ~dma'[ch].enable
             /\ Bits(registers'[Reg(ch, 5)], 15, 1) = 0]_vars

(***************************************************************************)
(* Properties of the copy slice.  A store to DMAxCNT_HI that enables an    *)
(* immediate channel services it with the addresses and the count the      *)
(* channel was programmed with.                                            *)
(***************************************************************************)
\* the store to DMAxCNT_HI this step makes enables channel ch, which is
\* serviced once
Triggers(ch) ==
    /\ last' = "control"
    /\ ~dma[ch].enable
    /\ calls' = <<[ch |-> ch, ran |-> TRUE]>>

\* C3: an immediate, non-repeating DMA of N units of width w from on-board
\* RAM to on-chip RAM, both controls increment, both addresses aligned to w,
\* copies the N*w source bytes to the destination range and changes no other
\* byte of either RAM.
C3_CopiesExactly ==
    [][\A ch \in Channels :
          (/\ Triggers(ch)
           /\ dma'[ch].timing = DMA_TIMING_NOW
           /\ ~dma'[ch].repeat
           /\ dma'[ch].srcControl = 0
           /\ dma'[ch].dstControl = 0
           /\ RegionOf(dma[ch].source) = REGION_WORKING_RAM
           /\ RegionOf(dma[ch].dest) = REGION_WORKING_IRAM
           /\ dma[ch].source % dma'[ch].width = 0
           /\ dma[ch].dest % dma'[ch].width = 0)
          => LET s == LowBits(dma[ch].source, BASE_OFFSET)
                 d == LowBits(dma[ch].dest, BASE_OFFSET)
                 n == dma[ch].count * dma'[ch].width
                 ram == buffers[REGION_WORKING_RAM]
                 iram == buffers[REGION_WORKING_IRAM]
                 iramAfter == buffers'[REGION_WORKING_IRAM]
             IN /\ raised' = "none"
                /\ \A i \in 0..(n - 1) : Byte(iramAfter, d + i) = Byte(ram, s + i)
                /\ buffers'[REGION_WORKING_RAM] = ram
                /\ \A a \in ((DOMAIN iram) \cup (DOMAIN iramAfter)) \ (d..(d + n - 1)) :
                       Byte(iramAfter, a) = Byte(iram, a)]_vars

\* two 32-bit units have been copied from 0x02000000 to 0x0300007c: the
\* on-chip RAM holds the eight source bytes, in the source's order, over the
\* word that was stored at 0x03000080 before
C3_Witness ==
    /\ last = "control"
    /\ raised = "none"
    /\ calls = <<[ch |-> 3, ran |-> TRUE]>>
    /\ dma[3].width = 4
    /\ dma[3].srcControl = 0
    /\ dma[3].dstControl = 0
    /\ dma[3].source = 33554432
    /\ dma[3].dest = 50331772
    /\ dma[3].count = 2
    /\ [i \in 1..8 |-> Byte(buffers[REGION_WORKING_IRAM], 123 + i)]
           = <<68, 51, 34, 17, 136, 119, 102, 85>>
    /\ pageBits[REGION_WORKING_IRAM] = INVALIDATE_BITS

\* C7 as the specification states it: a 32-bit DMA with srcControl = fixed
\* leaves nextSource as it was, for every programmed source address.
C7_FixedSourceUnchanged ==
    [][\A ch \in Channels :
          (/\ Triggers(ch)
           /\ raised' = "none"
           /\ dma'[ch].width = 4
           /\ dma'[ch].srcControl = 2)
          => dma'[ch].nextSource = dma[ch].source]_vars

\* C7, amended: a 32-bit DMA with srcControl = fixed whose source slot is
\* mapped leaves nextSource at the programmed source rounded down to a
\* multiple of 4, which is the programmed source if that is word-aligned.
C7_FixedSourceAligned ==
    [][\A ch \in Channels :
          (/\ Triggers(ch)
           /\ raised' = "none"
           /\ dma'[ch].width = 4
           /\ dma'[ch].srcControl = 2
           /\ KindOf(Machine, RegionOf(dma[ch].source)) # "absent")
          => dma'[ch].nextSource = dma[ch].source - (dma[ch].source % 4)]_vars

\* a 32-bit fixed-source DMA of two units has run from 0x02000006
C7_Witness ==
    /\ last = "control"
    /\ raised = "none"
    /\ calls = <<[ch |-> 3, ran |-> TRUE]>>
    /\ dma[3].width = 4
    /\ dma[3].srcControl = 2
    /\ dma[3].count = 2
    /\ dma[3].source = 33554438
    /\ dma[3].nextSource = 33554436

\* the offsets of the first and the last byte a transfer of count units of
\* width bytes writes from the (aligned) offset d under dstControl control
FirstWritten(d, count, width, control) ==
    IF DMA_OFFSET[control + 1] < 0 THEN d - (count - 1) * width ELSE d

LastWritten(d, count, width, control) ==
    IF DMA_OFFSET[control + 1] > 0 THEN d + count * width - 1 ELSE d + width - 1

\* C10: before a DMA writes into a RAM that has an instruction cache, every
\* allocated page of that cache that overlaps a byte the transfer writes is
\* marked invalid, for every destination, count, width and dstControl.
C10_WrittenPagesInvalidated ==
    [][\A ch \in Channels :
          (/\ Triggers(ch)
           /\ raised' = "none"
           /\ dma[ch].count >= 1
           /\ RegionOf(dma[ch].dest) = REGION_WORKING_IRAM
           /\ KindOf(Machine, RegionOf(dma[ch].source)) # "absent")
          => LET w == dma'[ch].width
                 d == LowBits(dma[ch].dest, BASE_OFFSET)
                 aligned == d - (IF w = 4 THEN d % 4 ELSE 0)
                 lo == FirstWritten(aligned, dma[ch].count, w, dma'[ch].dstControl)
                 hi == LastWritten(aligned, dma[ch].count, w, dma'[ch].dstControl)
                 pages == icache[REGION_WORKING_IRAM]
             IN \A id \in DOMAIN pages :
                    (id * pages[id].thumb <= hi /\ lo < (id + 1) * pages[id].thumb)
                    => icache'[REGION_WORKING_IRAM][id].invalid]_vars

(***************************************************************************)
(* Properties of the blanking slice.                                       *)
(***************************************************************************)
\* the services of the channels i..3 that are enabled with timing, ascending
RECURSIVE Matching(_, _)
Matching(timing, i) ==
    IF i > 3 THEN <<>>
    ELSE (IF dma[i].enable /\ dma[i].timing = timing
          THEN <<[ch |-> i, ran |-> TRUE]>> ELSE <<>>)
         \o Matching(timing, i + 1)

\* C8: runVblankDmas (runHblankDmas) services exactly the channels that are
\* enabled with timing vblank (hblank), each once, in ascending order, and
\* leaves the record of every other channel as it was.
C8_BlankServicesMatching ==
    [][\A timing \in {DMA_TIMING_VBLANK, DMA_TIMING_HBLANK} :
          last' = (IF timing = DMA_TIMING_VBLANK THEN "vblank" ELSE "hblank")
          => /\ calls' = Matching(timing, 0)
             /\ \A ch \in Channels :
                    ~(dma[ch].enable /\ dma[ch].timing = timing)
                    => dma'[ch] = dma[ch]]_vars

(***************************************************************************)
(* Properties of the cache slice.                                          *)
(***************************************************************************)
\* the bytes from..to of a region lie partly in the page id of its cache:
\* a page covers as many bytes as it has thumb slots
InPage(page, id, from, to) ==
    id * page.thumb <= to /\ from < (id + 1) * page.thumb

\* the offset in its region of the first byte a bus store of width bytes at
\* address writes
StoredAt(address, width) ==
    (LowBits(address, BASE_OFFSET) - (LowBits(address, BASE_OFFSET) % width))
        % BlockSize(RegionOf(address))

\* C11: a store into a RAM block marks invalid every allocated page of the
\* block that holds a byte it writes, and leaves valid every valid page that
\* holds none: a cached page is valid iff no store touched its range.
C11_StoreInvalidatesItsPages ==
    [][\A r \in Blocks : \A id \in DOMAIN icache[r] :
          (last' = "store" /\ RegionOf(result'.address) = r)
          => LET first == StoredAt(result'.address, result'.width)
                 touched == InPage(icache[r][id], id, first, first + result'.width - 1)
             IN icache'[r][id].invalid = (touched \/ icache[r][id].invalid)]_vars

\* C12: ICACHE_PAGE_BITS of each RAM block keeps the value it was constructed
\* with, 9 for on-board RAM and 7 for on-chip RAM, in every reachable state.
C12_PageBitsKept ==
    /\ pageBits[REGION_WORKING_RAM] = RAM_CACHE_BITS
    /\ pageBits[REGION_WORKING_IRAM] = IRAM_CACHE_BITS

(***************************************************************************)
(* Properties of the timing slice.                                         *)
(***************************************************************************)
\* C13: after adjustTimings(w) the non-sequential penalty of each cartridge
\* window is ROM_WS[its 2-bit select], the sequential one ROM_WS_SEQ[window]
\* [its 1-bit select], the 32-bit penalties are nonseq + 1 + seq and
\* 2 * seq + 1, and the four non-prefetch vectors of the save region are
\* ROM_WS[w & 3], whatever the vectors held before.
C13_TimingsFollowWaitcnt ==
    last = "waitcnt" =>
        LET w == registers[WAITCNT \div 2]
            v == waitstates
            select == <<(w \div 4) % 4, (w \div 32) % 4, (w \div 256) % 4>>
            seq == <<(w \div 16) % 2, (w \div 128) % 2, (w \div 1024) % 2>>
        IN /\ \A k \in 1..3 : \A r \in {6 + 2 * k, 7 + 2 * k} :
                  /\ v.waitstates[r] = ROM_WS[select[k] + 1]
                  /\ v.waitstatesSeq[r] = ROM_WS_SEQ[k][seq[k] + 1]
                  /\ v.waitstates32[r] = v.waitstates[r] + 1 + v.waitstatesSeq[r]
                  /\ v.waitstatesSeq32[r] = 2 * v.waitstatesSeq[r] + 1
           /\ \A name \in {"waitstates", "waitstatesSeq", "waitstates32", "waitstatesSeq32"} :
                  v[name][REGION_CART_SRAM] = ROM_WS[(w % 4) + 1]

\* WAITCNT = 0x4014 has been written over another setting: window 0 has
\* non-sequential 3, sequential 1 and 32-bit non-sequential 5
C13_Witness ==
    /\ last = "waitcnt"
    /\ ops >= 2
    /\ result.value = 16404
    /\ waitstates.waitstates[8] = 3
    /\ waitstates.waitstates[9] = 3
    /\ waitstates.waitstatesSeq[8] = 1
    /\ waitstates.waitstates32[8] = 5
    /\ waitstates.waitstatesSeq32[8] = 3
    /\ waitstates.waitstates[REGION_CART_SRAM] = 4

\* C14: in the reset state and after any adjustTimings(w), the two prefetch
\* vectors equal the sequential vectors at every cartridge region when bit 14
\* of the setting is clear, and are 0 there when it is set.
C14_PrefetchFollowsSequential ==
    \A r \in 8..13 :
        IF (registers[WAITCNT \div 2] \div 16384) % 2 = 0
        THEN /\ waitstates.waitstatesPrefetch[r] = waitstates.waitstatesSeq[r]
             /\ waitstates.waitstatesPrefetch32[r] = waitstates.waitstatesSeq32[r]
        ELSE /\ waitstates.waitstatesPrefetch[r] = 0
             /\ waitstates.waitstatesPrefetch32[r] = 0

\* a second setting with prefetch off has been written: the prefetch vectors
\* are the sequential ones of that setting
C14_Witness ==
    /\ last = "waitcnt"
    /\ ops >= 2
    /\ result.value = 341
    /\ waitstates.waitstatesPrefetch[8] = 1
    /\ waitstates.waitstatesPrefetch[10] = 4
    /\ waitstates.waitstatesPrefetch32[12] = 17

\* C15: waitMul(rs) adds 1 cycle if rs < 0x100, 2 if rs < 0x10000, 3 if
\* rs < 0x1000000 and 4 otherwise (rs as an unsigned 32-bit value), whatever
\* the low bits of rs are.
C15_MulCyclesByTopByte ==
    [][last' = "waitMul" =>
          cpu'.cycles - cpu.cycles =
              (LET rs == result'.rs
               IN IF rs >= 0 /\ rs < 256 THEN 1
                  ELSE IF rs >= 0 /\ rs < 65536 THEN 2
                  ELSE IF rs >= 0 /\ rs < 16777216 THEN 3
                  ELSE 4)]_vars

\* what a wait operation must add: 1 + its vector's entry, and for
\* waitMulti32 one non-sequential 32-bit access and seq - 1 sequential ones
Charged(request, v) ==
    LET r == request.address \div 16777216
        at(vector) == IF r \in DOMAIN vector THEN vector[r] ELSE 0
    IN IF "kind" \in DOMAIN request
       THEN 1 + at(v[WaitVectors[request.kind]])
       ELSE (1 + at(v.waitstates32)) + (request.seq - 1) * (1 + at(v.waitstatesSeq32))

\* C16 as the specification states it: each wait operation adds 1 + its
\* vector's entry, waitMulti32(region, n) adds (1 + waitstates32[region]) +
\* (n - 1) * (1 + waitstatesSeq32[region]), and no wait operation decreases
\* cpu.cycles, for every n >= 0.
C16_WaitsChargeAndNeverDecrease ==
    [][/\ last' \in {"wait", "waitMulti32"}
          => cpu'.cycles = cpu.cycles + Charged(result', waitstates)
       /\ last' \in {"wait", "waitMulti32", "waitMul"}
          => cpu'.cycles >= cpu.cycles]_vars

\* C16, amended: the same charges, and no wait operation decreases
\* cpu.cycles, for every n >= 1.
C16_WaitsChargeAndNeverDecreaseFromOne ==
    [][/\ last' \in {"wait", "waitMulti32"}
          => cpu'.cycles = cpu.cycles + Charged(result', waitstates)
       /\ (/\ last' \in {"wait", "waitMulti32", "waitMul"}
           /\ last' = "waitMulti32" => result'.seq >= 1)
          => cpu'.cycles >= cpu.cycles]_vars

\* a block transfer of three words has been charged in cartridge window 2
\* after a WAITCNT write: 1 + 7 and twice 1 + 3
C16_Witness ==
    /\ last = "waitMulti32"
    /\ result = [address |-> 201326592, seq |-> 3]
    /\ registers[WAITCNT \div 2] = 18431
    /\ cpu.cycles = 20

(***************************************************************************)
(* Properties of the load slice.                                           *)
(***************************************************************************)
\* the load that has just returned, or raised
JustLoaded(op) == last = "load" /\ result.op = op

\* the region the last load addressed, and its offset there
LoadRegion == result.address \div 16777216
LoadOffset == result.address % 16777216

\* the region holds data (a RAM block, a ROM view, the BIOS view) and the
\* n bytes at offset lie inside its buffer
InsideBuffer(offset, n) ==
    \/ memory[LoadRegion] = "block" /\ offset + n <= BlockSize(LoadRegion)
    \/ memory[LoadRegion] = "rom" /\ offset + n <= rom
    \/ memory[LoadRegion] = "bios" /\ offset + n <= BiosLen

\* a 32-bit signed number as its four bytes, most significant first, and back
WordBytes(x) ==
    <<(x \div 16777216) % 256, (x \div 65536) % 256, (x \div 256) % 256, x % 256>>
WordOf(b) ==
    (IF b[1] >= 128 THEN b[1] - 256 ELSE b[1]) * 16777216
    + b[2] * 65536 + b[3] * 256 + b[4]

\* x rotated right by k bytes, modulo 2^32
RotateRightBytes(x, k) ==
    WordOf([i \in 1..4 |-> WordBytes(x)[((i - 1 - k) % 4) + 1]])

\* the little-endian word at offset of the buffer the last load addressed
AlignedWord(offset) ==
    WordOf([i \in 1..4 |-> ViewByte(Machine, LoadRegion, offset + 4 - i)])

\* C17: for a RAM block, a ROM view and the BIOS view, and every offset a
\* inside the buffer, load32(a) is the aligned little-endian word at a & ~3
\* rotated right by (a & 3) * 8 bits, and that word itself when a & 3 = 0.
C17_Load32Rotates ==
    (JustLoaded("load32") /\ LoadRegion \in DOMAIN memory /\ InsideBuffer(LoadOffset, 1))
        => /\ raised = "none"
           /\ result.value =
                  RotateRightBytes(AlignedWord(LoadOffset - (LoadOffset % 4)),
                                   LoadOffset % 4)

\* C18: a load from the BIOS view at an offset at or behind the end of its
\* buffer returns -1 for load8, load16 and load32, 0xFF for loadU8 and 0xFFFF
\* for loadU16, and never raises.
C18_BiosBehindEnd ==
    (last = "load" /\ LoadRegion = REGION_BIOS /\ memory[REGION_BIOS] = "bios"
     /\ LoadOffset >= BiosLen)
        => /\ raised = "none"
           /\ result.value = (CASE result.op = "loadU8" -> 255
                                [] result.op = "loadU16" -> 65535
                                [] OTHER -> -1)

\* the same load from the offset reduced modulo the length of the image
Mirrored ==
    MmuLoad(Machine, result.address - LoadOffset + (LoadOffset % rom), result.op, 1)

\* C19: with a cartridge image of length L (a power of two below 32 MiB)
\* every 8-, 16- and 32-bit load from the ROM view returns without raising,
\* at offsets at or behind L too, and returns what the load at the offset
\* modulo L returns.
C19_RomMirrors ==
    (last = "load" /\ LoadRegion \in DOMAIN memory /\ memory[LoadRegion] = "rom")
        => /\ raised = "none"
           /\ result.value = Mirrored.value

\* the bytes at the address the CPU would have prefetched from, if a RAM
\* block, a ROM view or the BIOS view holds them
PrefetchAddress == cpu.pc - cpu.instructionWidth
PrefetchRegion == PrefetchAddress \div 16777216
PrefetchedByte(i) == ViewByte(Machine, PrefetchRegion, (PrefetchAddress % 16777216) + i)
PrefetchHeld ==
    /\ PrefetchRegion \in DOMAIN memory
    /\ memory[PrefetchRegion] \in {"block", "rom", "bios"}
    /\ (PrefetchAddress % 16777216) + cpu.instructionWidth
           <= ViewSize(Machine, PrefetchRegion)

\* what C20 states of a 32-bit load from the open bus
OpenBusWord ==
    IF cpu.execMode = "ARM"
    THEN WordOf(<<PrefetchedByte(3), PrefetchedByte(2), PrefetchedByte(1),
                  PrefetchedByte(0)>>)
    ELSE WordOf(<<PrefetchedByte(1), PrefetchedByte(0), PrefetchedByte(1),
                  PrefetchedByte(0)>>)

OpenBus(address) ==
    address \div 16777216 \notin DOMAIN memory \/ memory[address \div 16777216] = "bad"

\* C20: a 32-bit load from an open-bus region returns, in ARM state, the word
\* at PC - instructionWidth and, in Thumb state, the unsigned halfword at
\* PC - instructionWidth in both halves; a store to an open-bus region
\* changes nothing.
C20_OpenBus ==
    [][/\ (last' = "load" /\ result'.op = "load32" /\ OpenBus(result'.address)
          /\ PrefetchHeld)
          => (raised' = "none" /\ result'.value = OpenBusWord)
       /\ (last' = "store" /\ OpenBus(result'.address))
          => UNCHANGED <<memory, buffers, icache, pageBits, waitstates, dma,
                         registers, cpu, rom>>]_vars

\* C21: with a BIOS set, a load from an open-bus address returns a value
\* (it raises nothing) in every state of the CPU, also when the address
\* PC - instructionWidth the value is read from lies on the open bus itself.
C21_OpenBusLoadReturns ==
    (last = "load" /\ OpenBus(result.address) /\ memory[REGION_BIOS] = "bios")
        => raised = "none"

(***************************************************************************)
(* Properties of the cartridge slice.                                      *)
(***************************************************************************)
\* C22: mmu.loadRom of an image whose byte at 0xb2 is not 0x96 returns no
\* cart object and leaves mmu.cart, mmu.save and every region slot as they
\* were; with 0x96 there it returns the cart and the slots 8, 0xa and 0xc
\* hold the ROM view of the image.
C22_HeaderChecked ==
    [][(last' = "loadRom" /\ result'.image.size > ROM_MAGIC_AT)
          => IF result'.image.magic # ROM_MAGIC
             THEN /\ raised' = "none"
                  /\ ~result'.cart.loaded
                  /\ UNCHANGED <<cart, save, memory, backupAt, rom>>
             ELSE /\ raised' = "none"
                  /\ result'.cart.loaded
                  /\ cart' = result'.cart
                  /\ rom' = result'.image.size
                  /\ \A r \in {REGION_CART0, REGION_CART1, REGION_CART2} :
                         memory'[r] = "rom"]_vars

\* an image with a wrong header byte has been refused after a cartridge
\* with a backup had been loaded
C22_Witness ==
    /\ last = "loadRom"
    /\ result.image.magic # ROM_MAGIC
    /\ cart.loaded
    /\ save.class = "flash"
    /\ rom = 512

\* the token t occurs in text from position i on
OccursAt(text, t, i) ==
    i + Len(t) - 1 <= Len(text) /\ SubSeq(text, i, i + Len(t) - 1) = t

\* the first save-type token that occurs in text as a substring, <<>> if none
FirstToken(text) ==
    LET starts == {i \in 1..Len(text) : \E t \in SaveTokens : OccursAt(text, t, i)}
    IN IF starts = {} THEN <<>>
       ELSE CHOOSE t \in SaveTokens :
                \E i \in starts : OccursAt(text, t, i) /\ \A j \in starts : i <= j

\* the class and size of the backup that belongs to a token
TokenBackup(t) ==
    CASE t = <<"S", "R", "A", "M", "_", "V">> -> <<"sram", 32768>>
      [] t = <<"E", "E", "P", "R", "O", "M", "_", "V">> -> <<"eeprom", 8192>>
      [] t = <<"F", "L", "A", "S", "H", "1", "M", "_", "V">> -> <<"flash", 131072>>
      [] t = <<>> -> <<"sram", 32768>>
      [] OTHER -> <<"flash", 65536>>

\* C23: loadRom with processing installs the backup of the first save-type
\* token that occurs in the image from 0xe4 on, wherever the token starts,
\* and a backup it installs without there being a token is the default SRAM.
C23_FirstTokenDecides ==
    [][(/\ last' = "loadRom"
        /\ result'.process
        /\ result'.image.size > ROM_MAGIC_AT
        /\ result'.image.magic = ROM_MAGIC)
          => /\ FirstToken(result'.image.text) # <<>> => save'.id = ops'
             /\ save'.id = ops' =>
                    <<save'.class, save'.size>>
                        = TokenBackup(FirstToken(result'.image.text))]_vars

\* the slots that hold a backup object
BackupSlots == {r \in DOMAIN backupAt : backupAt[r] # 0}

\* C24: after any sequence of clear() and loadRom() calls at most one backup
\* object is mapped, it is the one mmu.save references, it sits in slot 0xe,
\* or in slot 0xd if it is an EEPROM, and it is the backup of the save type
\* of the cartridge loaded last.
C24_OneBackupLive ==
    /\ Cardinality(BackupSlots) <= 1
    /\ \A r \in BackupSlots :
           /\ backupAt[r] = save.id
           /\ r = (IF save.class = "eeprom" THEN REGION_CART2 + 1 ELSE REGION_CART_SRAM)
    /\ save.class # "none" =>
           /\ BackupSlots # {}
           /\ cart.loaded
           /\ <<save.class, save.size>> = TokenBackup(cart.saveType)

(***************************************************************************)
(* Properties of snapshots.                                                *)
(***************************************************************************)
\* C25: restoring the snapshot as it was serialized gives on-board RAM,
\* on-chip RAM and the I/O registers the contents they had when it was taken,
\* whatever was stored to them since.
C25_DefrostRestores ==
    [][(last' = "defrost" /\ result'.damage.kind = "none")
       => /\ raised' = "none"
          /\ buffers' = frozen.buffers
          /\ registers' = frozen.registers]_vars

\* a snapshot that holds a word in on-chip RAM and a video register was
\* restored after a store to on-board RAM, which it holds no byte of
C25_Witness ==
    /\ last = "defrost" /\ result.damage.kind = "none" /\ raised = "none"
    /\ buffers = frozen.buffers /\ registers = frozen.registers
    /\ buffers[REGION_WORKING_IRAM] # <<>>
    /\ registers[BLDY \div 2] # 0
    /\ buffers[REGION_WORKING_RAM] = <<>>
    /\ pageBits[REGION_WORKING_RAM] = INVALIDATE_BITS

\* C26: a restore from a file whose declared size exceeds its bytes, or whose
\* records run past the declared size, raises an error and leaves RAM, I/O
\* registers and CPU as they were.
C26_DamagedSnapshotRefused ==
    [][(last' = "defrost" /\ result'.damage.kind # "none")
       => /\ raised' # "none"
          /\ UNCHANGED <<buffers, icache, registers, cpu, memory>>]_vars

(***************************************************************************)
(* Properties of save data and frames.                                     *)
(***************************************************************************)
\* C27: decodeBase64 of the string encodeBase64 made of a byte string returns
\* a buffer with exactly those bytes, for every length.
C27_Base64RoundTrip ==
    [][last' = "decodeBase64"
       => /\ raised' = "none"
          /\ result'.value = BlobOf(result'.bytes)]_vars

\* C28: advanceFrame calls storeSavedata only at the end of a frame in which
\* no store hit the backup, and only when a store has hit the backup since
\* the last storeSavedata and since the cartridge was loaded.
C28_SavesOnlyAfterWrite ==
    [][(last' = "endFrame" /\ calls' # <<>>)
       => (~unsaved.frame /\ unsaved.sinceLoad)]_vars

C30_FrameEndsAtVblank ==
    [][/\ (gba.stepping /\ ~gba'.stepping) => (gba.seenFrame /\ last = "cpuStep")
       /\ (gba.stepping /\ ~gba.seenFrame) => (last' = "cpuStep" /\ gba'.stepping)
       /\ gba.seenFrame => (last' = "endFrame" /\ ~gba'.stepping)
       /\ ~gba'.stepping => ~gba'.seenFrame]_vars

\* the first frame of a game has ended after a step without vblank and one
\* with it
C30_Witness ==
    /\ last = "endFrame" /\ raised = "none" /\ ~gba.stepping /\ ~gba.seenFrame
    /\ save.id = 1 /\ ops = 5

(***************************************************************************)
(* Properties of the bus slice.                                            *)
(***************************************************************************)
\* C31: a 16-bit store to an I/O offset that is no register leaves the I/O
\* register block as it was, and with it any later snapshot of the block.
C31_UnknownStoreDiscarded ==
    [][(last' = "store16" /\ ~KnownRegister(result'.offset))
       => registers' = registers]_vars

\* C33: a load of any kind from an address in the on-board RAM, the on-chip
\* RAM or the I/O region returns a value and raises nothing (with a BIOS
\* image in place, which an open-bus value may be read from).
C33_LoadsReturn ==
    [][(/\ last' = "load"
        /\ memory[REGION_BIOS] = "bios"
        /\ result'.address \div 16777216
               \in {REGION_WORKING_RAM, REGION_WORKING_IRAM, REGION_IO})
       => raised' = "none"]_vars

\* C32: a control write that enables a channel with timing = custom performs
\* no transfer and returns normally on every channel: serviceDma is not
\* called, RAM is unchanged, and no error reaches the store.
C32_CustomTimingReturns ==
    [][\A ch \in Channels :
          (/\ last' = "control"
           /\ ~dma[ch].enable
           /\ dma'[ch].enable
           /\ dma'[ch].timing = DMA_TIMING_CUSTOM)
          => /\ raised' = "none"
             /\ calls' = <<>>
             /\ buffers' = buffers]_vars

\* C34: gba.setRom of an image whose header byte is wrong leaves the emulator
\* as it was: the cartridge that was loaded and its backup, the contents of
\* RAM and the region map.
C34_RefusedRomLeavesState ==
    [][(/\ last' = "setRom"
        /\ result'.image.size > ROM_MAGIC_AT
        /\ result'.image.magic # ROM_MAGIC)
       => /\ raised' = "none"
          /\ UNCHANGED <<cart, save, backupAt, rom, buffers, memory>>]_vars

(***************************************************************************)
(* Properties of the serializer slice.                                     *)
(***************************************************************************)
\* C35: deserializeStream of the blob serialize made of a tree raises
\* nothing and gives the tree back: every number, string, boolean and blob
\* content, and every struct, nested and empty ones too.
C35_SerializeRoundTrip ==
    [][last' = "deserializeStream"
       => /\ raised' = "none"
          /\ result'.value = [type |-> "struct",
                              value |-> ObjectOf(result'.tree)]]_vars

(***************************************************************************)
(* Properties of the alignment slice.                                      *)
(***************************************************************************)
\* the channel record serviceDma is given when the control write this step
\* makes enables channel ch
Programmed(ch) ==
    [dma'[ch] EXCEPT !.nextSource = dma[ch].source,
                     !.nextDest = dma[ch].dest,
                     !.nextCount = dma[ch].count]

\* the RAM contents the transfer of info leaves when it reads through the
\* source view and stores through the region API
StoredByRegionApi(m, info) ==
    Transfer(m, [Plan(m, info) EXCEPT !.path = "sourceView"],
             LowBits(info.nextSource, BASE_OFFSET),
             LowBits(info.nextDest, BASE_OFFSET), info.nextCount).m.buffers

\* C36: serviceDma aligns source and destination down to the transfer width
\* on every path, so a transfer between the RAM blocks, which copies from
\* view to view, leaves the bytes at the offsets the region-API path would
\* write, for width 2 and width 4 and for unaligned programmed addresses.
C36_PathsWriteTheSame ==
    [][\A ch \in Channels :
          (/\ Triggers(ch)
           /\ dma'[ch].timing = DMA_TIMING_NOW
           /\ RegionOf(dma[ch].source) \in Blocks
           /\ RegionOf(dma[ch].dest) \in Blocks)
          => /\ raised' = "none"
             /\ buffers' = StoredByRegionApi(Machine, Programmed(ch))]_vars

(***************************************************************************)
(* Properties of the word slice.                                           *)
(***************************************************************************)
\* the 32-bit store this step makes writes DMAxCNT_LO of channel ch, whose
\* high half enables the channel, which is serviced once
WordTriggers(ch) ==
    /\ last' = "ioStore32"
    /\ result'.offset = 2 * Reg(ch, 4)
    /\ ~dma[ch].enable
    /\ calls' = <<[ch |-> ch, ran |-> TRUE]>>

\* C37: a 32-bit store to DMAxCNT_LO applies its halves in order, the word
\* count of the low half before the control of the high half, so an
\* immediate DMA the store starts copies the new count of units; and a store
\* that starts an immediate, non-repeating DMA, 32-bit or 16-bit, has put
\* the control register in place before dmaWriteControl ran: the enable bit
\* the finished DMA cleared stays cleared.
C37_CountBeforeControl ==
    [][\A ch \in Channels :
          /\ (/\ WordTriggers(ch)
              /\ dma'[ch].timing = DMA_TIMING_NOW
              /\ ~dma'[ch].repeat
              /\ dma'[ch].srcControl = 0
              /\ dma'[ch].dstControl = 0
              /\ RegionOf(dma[ch].source) = REGION_WORKING_RAM
              /\ RegionOf(dma[ch].dest) = REGION_WORKING_IRAM)
             => LET s == LowBits(dma[ch].source, BASE_OFFSET)
                    d == LowBits(dma[ch].dest, BASE_OFFSET)
                    n == DmaWordCount(ch, result'.low) * dma'[ch].width
                    ram == buffers[REGION_WORKING_RAM]
                    iram == buffers[REGION_WORKING_IRAM]
                    iramAfter == buffers'[REGION_WORKING_IRAM]
                IN /\ raised' = "none"
                   /\ dma'[ch].count = DmaWordCount(ch, result'.low)
                   /\ registers'[Reg(ch, 4)] = result'.low
                   /\ registers'[Reg(ch, 5)]
                          = ClearEnableBit(ControlRegister(result'.high))
                   /\ \A i \in 0..(n - 1) :
                          Byte(iramAfter, d + i) = Byte(ram, s + i)
                   /\ \A a \in ((DOMAIN iram) \cup (DOMAIN iramAfter))
                                  \ (d..(d + n - 1)) :
                          Byte(iramAfter, a) = Byte(iram, a)
          /\ (/\ Triggers(ch)
              /\ raised' = "none"
              /\ dma'[ch].timing = DMA_TIMING_NOW
              /\ ~dma'[ch].repeat)
             => /\ ~dma'[ch].enable
                /\ registers'[Reg(ch, 5)] < 32768
                /\ registers'[Reg(ch, 5)] % 32 = 0]_vars

\* channel 3 was programmed with a count of 1; one 32-bit store to
\* DMA3CNT_LO with count 2 and control 0x8400 has copied two words
C37_Witness ==
    /\ last = "ioStore32"
    /\ raised = "none"
    /\ result.offset = 2 * Reg(3, 4)
    /\ result.low = 2
    /\ result.high = 33792
    /\ calls = <<[ch |-> 3, ran |-> TRUE]>>
    /\ dma[3].count = 2
    /\ registers[Reg(3, 4)] = 2
    /\ registers[Reg(3, 5)] = 1024
    /\ [i \in 1..8 |-> Byte(buffers[REGION_WORKING_IRAM], i - 1)]
           = <<68, 51, 34, 17, 136, 119, 102, 85>>

(***************************************************************************)
(* Properties of the page slice.                                           *)
(***************************************************************************)
\* the page accessPage allocates for a block whose pages hold bits address
\* bits: not invalid, decode arrays without entries
FreshPage(bits) == [invalid |-> FALSE, thumb |-> Pow2(bits)]

\* C38: a restore that succeeds leaves the icaches of both RAM blocks
\* without a page, so the pages allocated before it are never returned by
\* accessPage again; pages enter an icache only through accessPage, and the
\* first accessPage of a page id after the restore puts a fresh page there.
C38_RestoreDropsPages ==
    [][/\ (last' = "defrost" /\ raised' = "none")
          => \A r \in Blocks :
                /\ icache'[r] = <<>>
                /\ \A id \in DOMAIN icache[r] : <<r, id>> \in dropped'
       /\ last' # "accessPage"
          => \A r \in Blocks : DOMAIN icache'[r] \subseteq DOMAIN icache[r]
       /\ last' = "accessPage"
          => \A r \in Blocks : \A id \in DOMAIN icache'[r] :
                \/ id \in DOMAIN icache[r] /\ icache'[r][id] = icache[r][id]
                \/ icache'[r][id] = FreshPage(pageBits[r])]_vars

\* a page of the on-chip RAM that a restore discarded has been fetched from
\* again: its id holds a page that is not invalid
C38_Witness ==
    /\ last = "accessPage"
    /\ raised = "none"
    /\ \E id \in DOMAIN icache[REGION_WORKING_IRAM] :
          /\ <<REGION_WORKING_IRAM, id>> \in dropped
          /\ icache[REGION_WORKING_IRAM][id] = FreshPage(pageBits[REGION_WORKING_IRAM])

(***************************************************************************)
(* Properties of the run slice.                                            *)
(***************************************************************************)
\* C39: while the emulator is paused no timer callback enters advanceFrame,
\* and while it runs at most one frame timer is pending, that is, at most
\* one callback chain is live, whatever the order of pause(), runStable()
\* and the callbacks.
C39_OneChainWhileRunning ==
    [][/\ (gba.paused /\ last' = "runFunc") => ~gba'.stepping
       /\ ~gba'.paused => Cardinality(gba'.timers) <= 1]_vars

(***************************************************************************)
(* Properties of the keypad slice.                                         *)
(***************************************************************************)
\* C40: once every physical key is released pressedKeys.keyboard is 0, and
\* currentDown reads 0x3FF if no pad holds a button; currentDown is always
\* within 0..0x3FF, and a bit of it is 0 exactly when some source of
\* pressedKeys holds that button.
C40_ReleasedReadsIdle ==
    LET keypad == gba.keypad
        down == CurrentDown(keypad)
        pads == (DOMAIN keypad.pressedKeys) \ {"keyboard"}
    IN /\ keypad.held = {}
          => /\ keypad.pressedKeys.keyboard = 0
             /\ (\A id \in pads : keypad.pressedKeys[id] = 0) => down = KEY_OFFSET
       /\ down \in 0..KEY_OFFSET
       /\ \A b \in 0..9 :
             ~HasBit(down, b)
                 <=> \E source \in DOMAIN keypad.pressedKeys :
                        HasBit(keypad.pressedKeys[source], b)

====
